---- MODULE Spec2Model ----
(***************************************************************************)
(* A model of tabbycat's graph.rs: the DOT data model (Identity, AttrList,  *)
(* Edge, Stmt, StmtList, SubGraph, Graph), its consuming builder            *)
(* operations and its Display serializer.                                   *)
(*                                                                          *)
(* Text is a sequence of Unicode scalar values (what a Rust &str is a       *)
(* sequence of); Utf("...") turns an ASCII literal into that sequence.      *)
(* A value of an enum is a record with a "tag" field naming the variant.    *)
(* Each builder operation is a pure operator (self in, Self out) and an     *)
(* action that applies it to the value a session holds.                     *)
(***************************************************************************)
EXTENDS Integers, Sequences, FiniteSets, TLC

VARIABLES
    attrs,      \* the AttrList a session is building: Vec<Vec<(Identity, Identity)>>
    edge,       \* the Edge a session is building
    stmts,      \* the StmtList a session is building
    builder,    \* the GraphBuilder (derive_builder, pattern = "owned")
    graph,      \* the Graph the session holds, if any
    idres,      \* the anyhow::Result of the last Identity::id call
    ident,      \* the Identity a session holds, if any
    pt,         \* the Port a session holds, if any
    sg,         \* the SubGraph a session holds, if any
    panicked,   \* whether an unwrap() of a builder operation met None
    render,     \* the call of Display::fmt in progress: pending parts, visits, text, result
    out,        \* the text of the held value as last displayed (to_string)
    op          \* the last call: its name and arguments

vars == <<attrs, edge, stmts, builder, graph, idres, ident, pt, sg, panicked, render, out, op>>

----------------------------------------------------------------------------
(* Bounds of the model. *)

\* groups an attribute list under construction may hold
MaxGroups == 3
\* pairs an attribute list under construction may hold, over all its groups
MaxPairs == 3
\* body segments an edge under construction may hold
MaxBody == 2
\* statements a statement list under construction may hold
MaxStmts == 3
\* characters of a string handed to Identity::id or Identity::quoted
MaxIdLen == 2
\* levels of subgraphs nested in the trees whose display is followed step by step
MaxDepth == 2

----------------------------------------------------------------------------
(* Text. *)

\* the printable ASCII characters U+0020..U+005F in code point order
AsciiLow == " !\"#$%&'()*+,-./0123456789:;<=>?@ABCDEFGHIJKLMNOPQRSTUVWXYZ[\\]^_"

\* the printable ASCII characters U+0061..U+007E in code point order
AsciiHigh == "abcdefghijklmnopqrstuvwxyz{|}~"

\* the printable ASCII character of code point n (U+0060 is not used by any literal)
AsciiAt(n) == IF n < 96 THEN SubSeq(AsciiLow, n - 31, n - 31) ELSE SubSeq(AsciiHigh, n - 96, n - 96)

\* the code points of the printable ASCII characters but U+0060
AsciiCodes == (32..95) \cup (97..126)

\* the code point of a printable ASCII character
CodePoint(c) == CHOOSE n \in AsciiCodes : AsciiAt(n) = c

\* a string literal as the sequence of its chars
Utf(s) == [i \in 1..Len(s) |-> CodePoint(SubSeq(s, i, i))]

\* the literals the Display implementations write
TxtTrue == Utf("true")

TxtFalse == Utf("false")

Semi == Utf(";")

Equals == Utf("=")

LBracket == Utf("[")

RBracket == Utf("]")

Colon == Utf(":")

KwNode == Utf("node ")

KwGraph == Utf("graph ")

KwEdge == Utf("edge ")

KwSubgraph == Utf("subgraph ")

Space == Utf(" ")

LBrace == Utf("{")

RBrace == Utf("}")

OpArrow == Utf("->")

OpLine == Utf("--")

KwStrict == Utf("strict ")

KwDigraph == Utf("digraph ")

\* how many times character c occurs in text t
Occurrences(t, c) == Cardinality({i \in 1..Len(t) : t[i] = c})

----------------------------------------------------------------------------
(* Option<T>. *)

None == [some |-> FALSE]

Some(x) == [some |-> TRUE, v |-> x]

----------------------------------------------------------------------------
(* Identity. *)

\* Identity::String(&str)
String(s) == [tag |-> "String", s |-> Utf(s)]

\* Identity::I32(i32), via From<i32>
I32(n) == [tag |-> "I32", n |-> n]

\* Identity::Bool(bool), via From<bool>
Bool(b) == [tag |-> "Bool", b |-> b]

\* the integer variants, all displayed with "{}"
IntTags == {"Usize", "ISize", "I8", "U8", "I16", "U16", "I32", "U32", "I64", "U64", "I128", "U128"}

RECURSIVE Digits(_)
\* the decimal digits of a natural number, most significant first
Digits(n) == IF n < 10 THEN <<48 + n>> ELSE Digits(n \div 10) \o <<48 + (n % 10)>>

\* "{}" of an integer: decimal, with a leading '-' when negative
DisplayInt(n) == IF n < 0 THEN <<45>> \o Digits(0 - n) ELSE Digits(n)

\* Identity::U8(u8), via From<u8>
U8(n) == [tag |-> "U8", n |-> n]

\* Identity::Quoted(&str); the text is a sequence of chars
Quoted(data) == [tag |-> "Quoted", s |-> data]

\* Identity::quoted
Identity_quoted(data) == Quoted(data)

\* Identity::RGBA(u8, u8, u8, u8)
RGBA(r, g, b, a) == [tag |-> "RGBA", rgba |-> <<r, g, b, a>>]

\* a hexadecimal digit, lower case
HexDigit(d) == IF d < 10 THEN 48 + d ELSE 87 + d

RECURSIVE LowerHex(_)
\* "{:x}" of an unsigned integer: lower-case hexadecimal, no padding
LowerHex(n) == IF n < 16 THEN <<HexDigit(n)>> ELSE LowerHex(n \div 16) \o <<HexDigit(n % 16)>>

\* the Unicode property Grapheme_Extend, on U+0000..U+0377: the combining
\* diacritical marks
grapheme_extend(c) == 768 <= c /\ c <= 879

\* core::unicode::printable::is_printable, on U+0000..U+0377: everything
\* but the controls, DEL, NO-BREAK SPACE and SOFT HYPHEN
is_printable(c) ==
    \/ 32 <= c /\ c <= 126
    \/ 161 <= c /\ c <= 172
    \/ 174 <= c /\ c <= 887

\* "\u{" hex "}"
escape_unicode(c) == <<92, 117, 123>> \o LowerHex(c) \o <<125>>

\* char::escape_debug as Debug for str applies it: the single quote is not escaped
escape_debug(c) ==
    CASE c = 0 -> <<92, 48>>
      [] c = 9 -> <<92, 116>>
      [] c = 13 -> <<92, 114>>
      [] c = 10 -> <<92, 110>>
      [] c = 92 -> <<92, 92>>
      [] c = 34 -> <<92, 34>>
      [] OTHER -> IF grapheme_extend(c) THEN escape_unicode(c)
                  ELSE IF is_printable(c) THEN <<c>>
                  ELSE escape_unicode(c)

RECURSIVE fmt_Debug_chars(_)
\* the chars of a str, each escaped
fmt_Debug_chars(s) ==
    IF Len(s) = 0 THEN << >> ELSE escape_debug(Head(s)) \o fmt_Debug_chars(Tail(s))

\* "{:?}" of a str: the escaped chars between double quotes
fmt_Debug_str(s) == <<34>> \o fmt_Debug_chars(s) \o <<34>>

\* impl Display for Identity
fmt_Identity(id) ==
    CASE id.tag = "RGBA" ->
            <<35>> \o LowerHex(id.rgba[1]) \o LowerHex(id.rgba[2]) \o LowerHex(id.rgba[3]) \o LowerHex(id.rgba[4])
      [] id.tag = "String" -> id.s
      [] id.tag = "Quoted" -> fmt_Debug_str(id.s)
      [] id.tag \in IntTags -> DisplayInt(id.n)
      [] id.tag = "Bool" -> IF id.b THEN TxtTrue ELSE TxtFalse

----------------------------------------------------------------------------
(* AttrList: builder operations and Display. *)

\* AttrList::new
AttrList_new == << >>

\* a variant of new_bracket that pushes nothing
new_bracket_noop(self) == self

\* AttrList::new_bracket: self.0.push(Vec::new())
new_bracket(self) == Append(self, << >>)

\* a variant of AttrList::extend that opens no group for an iterator without pairs
AttrList_extend_lazy(self, iter) ==
    IF Len(iter) = 0 THEN self
    ELSE LET s1 == IF Len(self) = 0 THEN new_bracket(self) ELSE self
         IN  [s1 EXCEPT ![Len(s1)] = @ \o iter]

\* AttrList::extend: open a first group if there is none, then extend the last group
AttrList_extend(self, iter) ==
    LET s1 == IF Len(self) = 0 THEN new_bracket(self) ELSE self
    IN  [s1 EXCEPT ![Len(s1)] = @ \o iter]

\* a variant of extend_list that merges the first given group into the last
\* group of the list
extend_list_merging(self, iter) ==
    IF Len(self) > 0 /\ Len(iter) > 0
    THEN [self EXCEPT ![Len(self)] = @ \o iter[1]] \o Tail(iter)
    ELSE self \o iter

\* a variant of extend_list that pushes an empty group after the given groups
extend_list_trailing(self, iter) == Append(self \o iter, << >>)

\* AttrList::extend_list: self.0.extend(iter)
extend_list(self, iter) == self \o iter

\* a variant of add that opens a new group for every pair
AttrList_add_newgroup(self, key, value) == Append(self, << <<key, value>> >>)

\* AttrList::add: open a first group if there is none, then push onto the last group
AttrList_add(self, key, value) ==
    LET s1 == IF Len(self) = 0 THEN new_bracket(self) ELSE self
    IN  [s1 EXCEPT ![Len(s1)] = Append(@, <<key, value>>)]

\* a variant of add_pair that hands the pair over value first
add_pair_swapped(self, pair) == AttrList_add(self, pair[2], pair[1])

\* AttrList::add_pair
add_pair(self, pair) == AttrList_add(self, pair[1], pair[2])

\* Vec::last_mut: the position of the last element, None for an empty Vec
last_mut(vec) == IF Len(vec) = 0 THEN None ELSE Some(Len(vec))

\* whether self.0.last_mut().unwrap() in AttrList::extend meets None
AttrList_extend_panics(self) ==
    LET s1 == IF Len(self) = 0 THEN new_bracket(self) ELSE self
    IN  ~last_mut(s1).some

\* whether self.0.last_mut().unwrap() in AttrList::add meets None
AttrList_add_panics(self) ==
    LET s1 == IF Len(self) = 0 THEN new_bracket(self) ELSE self
    IN  ~last_mut(s1).some

RECURSIVE fmt_Pairs_joined(_)
\* a variant of fmt_Pairs that separates the pairs with ";" and leaves the last unterminated
fmt_Pairs_joined(list) ==
    IF Len(list) = 0 THEN << >>
    ELSE LET n == Len(list)
         IN  (IF n = 1 THEN << >> ELSE fmt_Pairs_joined(SubSeq(list, 1, n - 1)) \o Semi)
                 \o fmt_Identity(list[n][1]) \o Equals \o fmt_Identity(list[n][2])

RECURSIVE fmt_Pairs(_)
\* the inner fold of Display for AttrList: "{}={};" per pair
fmt_Pairs(list) ==
    IF Len(list) = 0 THEN << >>
    ELSE LET n == Len(list)
         IN  fmt_Pairs(SubSeq(list, 1, n - 1))
                 \o fmt_Identity(list[n][1]) \o Equals \o fmt_Identity(list[n][2]) \o Semi

RECURSIVE fmt_AttrList_nested(_)
\* a variant of fmt_AttrList that opens each group inside the one before it
fmt_AttrList_nested(self) ==
    IF Len(self) = 0 THEN << >>
    ELSE LBracket \o fmt_Pairs(self[1]) \o fmt_AttrList_nested(Tail(self)) \o RBracket

RECURSIVE fmt_AttrList(_)
\* impl Display for AttrList: the outer fold, "[" pairs "]" per group
fmt_AttrList(self) ==
    IF Len(self) = 0 THEN << >>
    ELSE LET n == Len(self)
         IN  fmt_AttrList(SubSeq(self, 1, n - 1)) \o LBracket \o fmt_Pairs(self[n]) \o RBracket

\* the number of pairs of an attribute list, over all its groups
RECURSIVE NumPairs(_)
NumPairs(list) == IF Len(list) = 0 THEN 0 ELSE Len(list[1]) + NumPairs(Tail(list))

----------------------------------------------------------------------------
(* Port, Compass, EdgeNode, SubGraph: constructors. *)

\* Port::id
Port_id(i) == [tag |-> "ID", id |-> i, compass |-> None]

\* Port::id_compass
Port_id_compass(i, c) == [tag |-> "ID", id |-> i, compass |-> Some(c)]

\* Port::compass
Port_compass(c) == [tag |-> "Compass", compass |-> c]

\* EdgeNode::Node { id, port }
EdgeNode_Node(id, port) == [tag |-> "Node", id |-> id, port |-> port]

\* EdgeNode::SubGraph(sub)
EdgeNode_SubGraph(sub) == [tag |-> "SubGraph", sub |-> sub]

\* SubGraph::cluster
cluster(list) == [tag |-> "Cluster", stmts |-> list]

\* SubGraph::subgraph
subgraph(id, list) == [tag |-> "SubGraph", id |-> id, stmts |-> list]

----------------------------------------------------------------------------
(* Edge: builder operations. *)

\* Edge::head_node
head_node(id, port) == [node |-> EdgeNode_Node(id, port), body |-> << >>, attr |-> None]

\* Edge::head_subgraph
head_subgraph(sub) == [node |-> EdgeNode_SubGraph(sub), body |-> << >>, attr |-> None]

\* Edge::line_to_node
line_to_node(self, id, port) ==
    [self EXCEPT !.body = Append(@, [node |-> EdgeNode_Node(id, port), op |-> "Line"])]

\* a variant of line_to_subgraph that gives the segment the operator Arrow
line_to_subgraph_arrow(self, sub) ==
    [self EXCEPT !.body = Append(@, [node |-> EdgeNode_SubGraph(sub), op |-> "Arrow"])]

\* Edge::line_to_subgraph
line_to_subgraph(self, sub) ==
    [self EXCEPT !.body = Append(@, [node |-> EdgeNode_SubGraph(sub), op |-> "Line"])]

\* a variant of arrow_to_node that puts the segment first in the chain
arrow_to_node_front(self, id, port) ==
    [self EXCEPT !.body = <<[node |-> EdgeNode_Node(id, port), op |-> "Arrow"]>> \o @]

\* Edge::arrow_to_node
arrow_to_node(self, id, port) ==
    [self EXCEPT !.body = Append(@, [node |-> EdgeNode_Node(id, port), op |-> "Arrow"])]

\* Edge::arrow_to_subgraph
arrow_to_subgraph(self, sub) ==
    [self EXCEPT !.body = Append(@, [node |-> EdgeNode_SubGraph(sub), op |-> "Arrow"])]

\* a variant of add_attrlist that pushes the empty group also after a first list
add_attrlist_opening(self, list) ==
    IF ~self.attr.some
    THEN [self EXCEPT !.attr = Some(Append(list, << >>))]
    ELSE [self EXCEPT !.attr = Some(Append(self.attr.v \o list, << >>))]

\* a variant of add_attrlist that replaces the held list by the given one
add_attrlist_replacing(self, list) == [self EXCEPT !.attr = Some(list)]

\* Edge::add_attrlist: store the list when there is none, else extend the held
\* list with the given groups and push an empty group
add_attrlist(self, list) ==
    IF ~self.attr.some
    THEN [self EXCEPT !.attr = Some(list)]
    ELSE [self EXCEPT !.attr = Some(Append(self.attr.v \o list, << >>))]

\* a variant of add_attribute that opens a new group for the pair when a list is held
add_attribute_newgroup(self, key, value) ==
    IF ~self.attr.some
    THEN [self EXCEPT !.attr = Some(<< << <<key, value>> >> >>)]
    ELSE [self EXCEPT !.attr = Some(Append(self.attr.v, << <<key, value>> >>))]

\* Edge::add_attribute
add_attribute(self, key, value) ==
    IF ~self.attr.some
    THEN [self EXCEPT !.attr = Some(<< << <<key, value>> >> >>)]
    ELSE LET vec == self.attr.v
         IN  IF Len(vec) = 0
             THEN [self EXCEPT !.attr = Some(Append(vec, << <<key, value>> >>))]
             ELSE [self EXCEPT !.attr = Some([vec EXCEPT ![Len(vec)] = Append(@, <<key, value>>)])]

\* Edge::add_attrpair
add_attrpair(self, pair) == add_attribute(self, pair[1], pair[2])

\* Option::as_mut: Some of the content, None for None
as_mut(o) == o

\* whether self.attr.as_mut().unwrap() in Edge::add_attrlist meets None
add_attrlist_panics(self) ==
    IF ~self.attr.some THEN FALSE ELSE ~as_mut(self.attr).some

\* whether an unwrap() in Edge::add_attribute meets None: as_mut() of the
\* attribute list, or last_mut() of its groups
add_attribute_panics(self) ==
    IF ~self.attr.some THEN FALSE
    ELSE IF ~as_mut(self.attr).some THEN TRUE
    ELSE IF Len(self.attr.v) = 0 THEN FALSE
    ELSE ~last_mut(self.attr.v).some

----------------------------------------------------------------------------
(* StmtList: builder operations. *)

\* Stmt::Edge
Stmt_Edge(e) == [tag |-> "Edge", edge |-> e]

\* Stmt::Node { id, port, attr }
Stmt_Node(id, port, attr) == [tag |-> "Node", id |-> id, port |-> port, attr |-> attr]

\* Stmt::Attr(AttrType, AttrList)
Stmt_Attr(attr_type, attr_list) == [tag |-> "Attr", ty |-> attr_type, list |-> attr_list]

\* Stmt::Equation(a, b)
Stmt_Equation(a, b) == [tag |-> "Equation", a |-> a, b |-> b]

\* Stmt::SubGraph(sub)
Stmt_SubGraph(sub) == [tag |-> "SubGraph", sub |-> sub]

\* StmtList::new
StmtList_new == << >>

\* StmtList::add
StmtList_add(self, stmt) == Append(self, stmt)

\* a variant of StmtList::extend that takes the iterator's elements last first
StmtList_extend_reversed(self, iter) ==
    self \o [i \in 1..Len(iter) |-> iter[Len(iter) + 1 - i]]

\* StmtList::extend
StmtList_extend(self, iter) == self \o iter

\* StmtList::add_node
add_node(self, id, port, attr) == Append(self, Stmt_Node(id, port, attr))

\* StmtList::add_attr
add_attr(self, attr_type, attr_list) == Append(self, Stmt_Attr(attr_type, attr_list))

\* StmtList::add_edge
add_edge(self, e) == Append(self, Stmt_Edge(e))

\* StmtList::add_subgraph
add_subgraph(self, sub) == Append(self, Stmt_SubGraph(sub))

\* StmtList::add_equation
add_equation(self, a, b) == Append(self, Stmt_Equation(a, b))

----------------------------------------------------------------------------
(* Display of the structural types. *)

\* impl Display for Compass
fmt_Compass(c) ==
    CASE c = "North" -> Utf("n")
      [] c = "NorthEast" -> Utf("ne")
      [] c = "Ease" -> Utf("e")
      [] c = "SouthEast" -> Utf("se")
      [] c = "South" -> Utf("s")
      [] c = "SouthWest" -> Utf("sw")
      [] c = "West" -> Utf("w")
      [] c = "NorthWest" -> Utf("nw")
      [] c = "Central" -> Utf("c")

\* a variant of fmt_Port that writes the compass point before the id
fmt_Port_compass_first(p) ==
    IF p.tag = "ID"
    THEN IF p.compass.some
         THEN Colon \o fmt_Compass(p.compass.v) \o Colon \o fmt_Identity(p.id)
         ELSE Colon \o fmt_Identity(p.id)
    ELSE Colon \o fmt_Compass(p.compass)

\* impl Display for Port
fmt_Port(p) ==
    IF p.tag = "ID"
    THEN IF p.compass.some
         THEN Colon \o fmt_Identity(p.id) \o Colon \o fmt_Compass(p.compass.v)
         ELSE Colon \o fmt_Identity(p.id)
    ELSE Colon \o fmt_Compass(p.compass)

RECURSIVE fmt_StmtList(_)
RECURSIVE fmt_Stmt(_)
RECURSIVE fmt_SubGraph(_)
RECURSIVE fmt_EdgeNode(_)
RECURSIVE fmt_Body(_)
RECURSIVE fmt_Edge(_)

RECURSIVE fmt_StmtList_joined(_)
\* a variant of fmt_StmtList that separates the statements with ";" and leaves the last unterminated
fmt_StmtList_joined(self) ==
    IF Len(self) = 0 THEN << >>
    ELSE LET n == Len(self)
         IN  (IF n = 1 THEN << >> ELSE fmt_StmtList_joined(SubSeq(self, 1, n - 1)) \o Semi)
                 \o fmt_Stmt(self[n])

\* impl Display for StmtList: "{};" per statement
fmt_StmtList(self) ==
    IF Len(self) = 0 THEN << >>
    ELSE LET n == Len(self)
         IN  fmt_StmtList(SubSeq(self, 1, n - 1)) \o fmt_Stmt(self[n]) \o Semi

\* a variant of fmt_Stmt that writes the keyword of a default-attribute
\* statement without its trailing space
fmt_Stmt_tight(self) ==
    CASE self.tag = "Equation" -> fmt_Identity(self.a) \o Equals \o fmt_Identity(self.b)
      [] self.tag = "Edge" -> fmt_Edge(self.edge)
      [] self.tag = "Node" ->
            fmt_Identity(self.id)
                \o (IF self.port.some THEN fmt_Port(self.port.v) ELSE << >>)
                \o (IF self.attr.some THEN fmt_AttrList(self.attr.v) ELSE << >>)
      [] self.tag = "Attr" ->
            (CASE self.ty = "Node" -> Utf("node")
               [] self.ty = "Graph" -> Utf("graph")
               [] self.ty = "Edge" -> Utf("edge")) \o fmt_AttrList(self.list)
      [] self.tag = "SubGraph" -> fmt_SubGraph(self.sub)

\* impl Display for Stmt
fmt_Stmt(self) ==
    CASE self.tag = "Equation" -> fmt_Identity(self.a) \o Equals \o fmt_Identity(self.b)
      [] self.tag = "Edge" -> fmt_Edge(self.edge)
      [] self.tag = "Node" ->
            fmt_Identity(self.id)
                \o (IF self.port.some THEN fmt_Port(self.port.v) ELSE << >>)
                \o (IF self.attr.some THEN fmt_AttrList(self.attr.v) ELSE << >>)
      [] self.tag = "Attr" ->
            (CASE self.ty = "Node" -> KwNode
               [] self.ty = "Graph" -> KwGraph
               [] self.ty = "Edge" -> KwEdge) \o fmt_AttrList(self.list)
      [] self.tag = "SubGraph" -> fmt_SubGraph(self.sub)

\* a variant of fmt_SubGraph that writes no space between the id and the brace
fmt_SubGraph_tight(self) ==
    IF self.tag = "SubGraph"
    THEN KwSubgraph
             \o (IF self.id.some THEN fmt_Identity(self.id.v) ELSE << >>)
             \o LBrace \o fmt_StmtList(self.stmts) \o RBrace
    ELSE LBrace \o fmt_StmtList(self.stmts) \o RBrace

\* impl Display for SubGraph
fmt_SubGraph(self) ==
    IF self.tag = "SubGraph"
    THEN KwSubgraph
             \o (IF self.id.some THEN fmt_Identity(self.id.v) \o Space ELSE << >>)
             \o LBrace \o fmt_StmtList(self.stmts) \o RBrace
    ELSE LBrace \o fmt_StmtList(self.stmts) \o RBrace

\* impl Display for EdgeNode
fmt_EdgeNode(self) ==
    IF self.tag = "Node"
    THEN fmt_Identity(self.id) \o (IF self.port.some THEN fmt_Port(self.port.v) ELSE << >>)
    ELSE fmt_SubGraph(self.sub)

\* a variant of fmt_EdgeBody that sets the operator off with spaces
fmt_EdgeBody_spaced(self) ==
    (IF self.op = "Arrow" THEN Utf(" -> ") ELSE Utf(" -- ")) \o fmt_EdgeNode(self.node)

\* impl Display for EdgeBody
fmt_EdgeBody(self) ==
    (IF self.op = "Arrow" THEN OpArrow ELSE OpLine) \o fmt_EdgeNode(self.node)

\* the fold over self.body in Display for Edge
fmt_Body(body) ==
    IF Len(body) = 0 THEN << >>
    ELSE LET n == Len(body)
         IN  fmt_Body(SubSeq(body, 1, n - 1)) \o fmt_EdgeBody(body[n])

\* a variant of fmt_Edge that writes the attribute list before the body
fmt_Edge_attrs_first(self) ==
    fmt_EdgeNode(self.node)
        \o (IF self.attr.some THEN fmt_AttrList(self.attr.v) ELSE << >>)
        \o fmt_Body(self.body)

\* impl Display for Edge
fmt_Edge(self) ==
    fmt_EdgeNode(self.node) \o fmt_Body(self.body)
        \o (IF self.attr.some THEN fmt_AttrList(self.attr.v) ELSE << >>)

\* a variant of fmt_Graph that writes a space between the id and the brace
fmt_Graph_spaced(self) ==
    (IF self.strict THEN KwStrict ELSE << >>)
        \o (IF self.graph_type = "Graph" THEN KwGraph ELSE KwDigraph)
        \o (IF self.id.some THEN fmt_Identity(self.id.v) \o Space ELSE << >>)
        \o LBrace \o fmt_StmtList(self.stmts) \o RBrace

\* impl Display for Graph
fmt_Graph(self) ==
    (IF self.strict THEN KwStrict ELSE << >>)
        \o (IF self.graph_type = "Graph" THEN KwGraph ELSE KwDigraph)
        \o (IF self.id.some THEN fmt_Identity(self.id.v) ELSE << >>)
        \o LBrace \o fmt_StmtList(self.stmts) \o RBrace

----------------------------------------------------------------------------
(* Result<T, E>. *)

Ok(x) == [ok |-> TRUE, v |-> x]

Err(e) == [ok |-> FALSE, e |-> e]

----------------------------------------------------------------------------
(* Identity::id: the regex ^[a-zA-Z\x{80}-\x{ff}_][a-zA-Z\x{80}-\x{ff}\d_]*$   *)
(* as the regex crate matches it on a &str: over Unicode scalar values, with *)
(* \d the Unicode class Nd, and ^ $ the ends of the whole text.              *)

\* [a-zA-Z\x{80}-\x{ff}_]
ClassHead(c) ==
    \/ 97 <= c /\ c <= 122
    \/ 65 <= c /\ c <= 90
    \/ 128 <= c /\ c <= 255
    \/ c = 95

\* \d: a decimal digit of any script (ASCII, Arabic-Indic, Extended Arabic-Indic,
\* NKo, Devanagari, Fullwidth; the further Nd ranges are beyond the model's alphabet)
PerlDigit(c) ==
    \/ 48 <= c /\ c <= 57
    \/ 1632 <= c /\ c <= 1641
    \/ 1776 <= c /\ c <= 1785
    \/ 1984 <= c /\ c <= 1993
    \/ 2406 <= c /\ c <= 2415
    \/ 65296 <= c /\ c <= 65305

\* [a-zA-Z\x{80}-\x{ff}\d_]
ClassTail(c) == ClassHead(c) \/ PerlDigit(c)

\* re.is_match(data)
is_match(data) ==
    /\ Len(data) >= 1
    /\ ClassHead(data[1])
    /\ \A i \in 2..Len(data) : ClassTail(data[i])

\* a variant of Identity_id that returns the quoted identity
Identity_id_quoting(data) ==
    IF is_match(data)
    THEN Ok([tag |-> "Quoted", s |-> data])
    ELSE Err("invalid identity format")

\* Identity::id
Identity_id(data) ==
    IF is_match(data)
    THEN Ok([tag |-> "String", s |-> data])
    ELSE Err("invalid identity format")

----------------------------------------------------------------------------
(* Graph and the GraphBuilder that #[derive(Builder)] generates for it:      *)
(* one Option per field, a consuming setter per field, and build(), which    *)
(* fails on the first field, in declaration order, that was never set (no    *)
(* field carries #[builder(default)]).                                       *)

\* the struct expression Graph { graph_type, strict, id, stmts }
Graph(graph_type, strict, id, list) ==
    [graph_type |-> graph_type, strict |-> strict, id |-> id, stmts |-> list]

\* GraphBuilder::default
GraphBuilder_default == [graph_type |-> None, strict |-> None, id |-> None, stmts |-> None]

\* GraphBuilder::graph_type
GraphBuilder_graph_type(self, value) == [self EXCEPT !.graph_type = Some(value)]

\* GraphBuilder::strict
GraphBuilder_strict(self, value) == [self EXCEPT !.strict = Some(value)]

\* GraphBuilder::id, with setter(strip_option): takes an Identity, stores Some(value)
GraphBuilder_id(self, value) == [self EXCEPT !.id = Some(Some(value))]

\* GraphBuilder::stmts
GraphBuilder_stmts(self, value) == [self EXCEPT !.stmts = Some(value)]

\* GraphBuilder::build
GraphBuilder_build(self) ==
    IF ~self.graph_type.some THEN Err("graph_type")
    ELSE IF ~self.strict.some THEN Err("strict")
    ELSE IF ~self.id.some THEN Err("id")
    ELSE IF ~self.stmts.some THEN Err("stmts")
    ELSE Ok(Graph(self.graph_type.v, self.strict.v, self.id.v, self.stmts.v))

----------------------------------------------------------------------------
(* The arguments the sessions pass. *)

P1 == <<String("k1"), String("v1")>>

P2 == <<String("k2"), String("v2")>>

P3 == <<String("k3"), String("v3")>>

\* (Identity, Identity) pairs
AttrPairs == {P1, P2, P3}

\* iterators of pairs, for AttrList::extend
PairIters == {<< >>, <<P1>>, <<P2, P3>>}

\* attribute lists, for AttrList::extend_list and Edge::add_attrlist
AttrLists == {<< >>, << << >> >>, << <<P2>> >>, << <<P1>>, <<P2>> >>, << <<P2, P3>>, << >> >>}

\* a port with a compass point
PortXN == Port_id_compass(String("x"), "North")

\* subgraphs
SubGraphs ==
    { cluster(<<Stmt_Equation(String("a"), I32(0 - 7))>>),
      subgraph(Some(String("s")), << >>),
      subgraph(None, <<Stmt_Node(String("n"), None, None)>>) }

\* the node ids the edge sessions use
NodeA == String("a")

NodeB == String("b")

\* the subgraph the edge sessions use as an endpoint
EdgeSub == subgraph(Some(String("s")), << >>)

\* the edge of the end-to-end scenario
EdgeStartEnd ==
    add_attribute(arrow_to_node(head_node(String("start"), None), String("end"), None),
                  String("color"), String("red"))

\* edges, for StmtList::add_edge
Edges ==
    { EdgeStartEnd,
      add_attrlist(line_to_subgraph(head_node(String("a"), Some(PortXN)),
                                    subgraph(Some(String("s")), << >>)),
                   << <<P1>>, << >> >>) }

\* statements, for StmtList::add
Stmts ==
    { Stmt_Equation(String("a"), String("b")),
      Stmt_Equation(String("c"), String("d")),
      Stmt_Attr("Edge", << <<P1>> >>) }

\* (id, port, attr) triples, for StmtList::add_node
NodeArgs ==
    { <<String("start"), None, None>>,
      <<String("n"), Some(Port_compass("South")), None>>,
      <<String("n"), None, Some(<< <<P3>> >>)>>,
      <<String("n"), Some(PortXN), Some(<< <<P1>>, <<P2>> >>)>> }

\* (a, b) pairs, for StmtList::add_equation
EquationArgs == { <<String("a"), String("b")>>, <<String("c"), String("d")>>, <<String("n"), I32(0 - 7)>> }

\* iterators of statements, for StmtList::extend
StmtIters == {<< >>, <<Stmt_Equation(String("a"), String("b")), Stmt_Equation(String("c"), String("d"))>>}

\* the statement list of the end-to-end scenario
StmtsStartEnd == add_edge(add_node(StmtList_new, String("start"), None, None), EdgeStartEnd)

\* statement lists, for GraphBuilder::stmts
StmtLists ==
    { StmtList_new,
      StmtsStartEnd,
      add_equation(add_subgraph(StmtList_new, cluster(<<Stmt_Node(String("n"), None, None)>>)),
                   String("a"), Bool(TRUE)),
      add_edge(add_attr(add_node(StmtList_new, String("n"), Some(PortXN), Some(<< <<P1>>, <<P2, P3>> >>)),
                        "Edge", << << >> >>),
               add_attribute(
                   arrow_to_subgraph(
                       head_subgraph(cluster(<<Stmt_Node(String("n"), None, None)>>)),
                       subgraph(None, <<Stmt_SubGraph(subgraph(Some(String("s")), << >>))>>)),
                   String("w"), I32(0 - 7))) }

\* graph ids
GraphIds == {String("G"), I32(12)}

\* the characters of the strings handed to Identity::id:
\* LF, space, '-', '1', 'Z', '_', 'a', DEL, U+0080, U+00E9, U+00FF, U+0100, U+0663
IdChars == {10, 32, 45, 49, 90, 95, 97, 127, 128, 233, 255, 256, 1635}

\* the strings handed to Identity::id
IdStrings ==
    UNION {[1..n -> IdChars] : n \in 0..MaxIdLen}
        \cup {Utf("foo_1"), Utf("1foo"), Utf("foo bar")}

----------------------------------------------------------------------------
(* The state after construction. *)

Init ==
    /\ attrs = AttrList_new
    /\ edge = head_node(NodeA, None)
    /\ stmts = StmtList_new
    /\ builder = Some(GraphBuilder_default)
    /\ graph = None
    /\ idres = None
    /\ ident = None
    /\ pt = None
    /\ sg = None
    /\ panicked = FALSE
    /\ render = [stack |-> << >>, visits |-> << >>, text |-> << >>, res |-> Ok(<< >>)]
    /\ out = None
    /\ op = [name |-> "init"]

----------------------------------------------------------------------------
(* AttrList sessions.  A call consumes the list and yields the new one; the  *)
(* text displayed for the old value is dropped with it.                      *)

AttrListNew ==
    /\ attrs' = AttrList_new
    /\ op' = [name |-> "AttrList::new"]
    /\ out' = None
    /\ UNCHANGED <<edge, stmts, builder, graph, idres, ident, pt, sg, panicked, render>>

NewBracket ==
    /\ Len(attrs) < MaxGroups
    /\ attrs' = new_bracket(attrs)
    /\ op' = [name |-> "AttrList::new_bracket"]
    /\ out' = None
    /\ UNCHANGED <<edge, stmts, builder, graph, idres, ident, pt, sg, panicked, render>>

AttrListExtend(iter) ==
    /\ NumPairs(attrs) + Len(iter) <= MaxPairs
    /\ attrs' = AttrList_extend(attrs, iter)
    /\ op' = [name |-> "AttrList::extend", iter |-> iter]
    /\ out' = None
    /\ panicked' = (panicked \/ AttrList_extend_panics(attrs))
    /\ UNCHANGED <<edge, stmts, builder, graph, idres, ident, pt, sg, render>>

ExtendList(iter) ==
    /\ Len(attrs) + Len(iter) <= MaxGroups
    /\ NumPairs(attrs) + NumPairs(iter) <= MaxPairs
    /\ attrs' = extend_list(attrs, iter)
    /\ op' = [name |-> "AttrList::extend_list", iter |-> iter]
    /\ out' = None
    /\ UNCHANGED <<edge, stmts, builder, graph, idres, ident, pt, sg, panicked, render>>

AttrListAdd(key, value) ==
    /\ NumPairs(attrs) < MaxPairs
    /\ attrs' = AttrList_add(attrs, key, value)
    /\ op' = [name |-> "AttrList::add", key |-> key, value |-> value]
    /\ out' = None
    /\ panicked' = (panicked \/ AttrList_add_panics(attrs))
    /\ UNCHANGED <<edge, stmts, builder, graph, idres, ident, pt, sg, render>>

AddPair(pair) ==
    /\ NumPairs(attrs) < MaxPairs
    /\ attrs' = add_pair(attrs, pair)
    /\ op' = [name |-> "AttrList::add_pair", pair |-> pair]
    /\ out' = None
    /\ panicked' = (panicked \/ AttrList_add_panics(attrs))
    /\ UNCHANGED <<edge, stmts, builder, graph, idres, ident, pt, sg, render>>

\* attrs.to_string()
FmtAttrList ==
    /\ out' = Some(fmt_AttrList(attrs))
    /\ op' = [name |-> "AttrList::fmt"]
    /\ UNCHANGED <<attrs, edge, stmts, builder, graph, idres, ident, pt, sg, panicked, render>>

NextAttrList ==
    \/ AttrListNew
    \/ NewBracket
    \/ \E iter \in PairIters : AttrListExtend(iter)
    \/ \E iter \in AttrLists : ExtendList(iter)
    \/ \E pair \in AttrPairs : AttrListAdd(pair[1], pair[2])
    \/ \E pair \in AttrPairs : AddPair(pair)
    \/ FmtAttrList

SpecAttrList == Init /\ [][NextAttrList]_vars

----------------------------------------------------------------------------
(* Edge sessions. *)

\* whether attribute list `list` may be merged into the session's edge within the bounds
FitsEdge(list) ==
    IF edge.attr.some
    THEN /\ Len(edge.attr.v) + Len(list) + 1 <= MaxGroups
         /\ NumPairs(edge.attr.v) + NumPairs(list) <= MaxPairs
    ELSE /\ Len(list) <= MaxGroups
         /\ NumPairs(list) <= MaxPairs

\* whether one more pair may be added to the session's edge within the bounds
FitsEdgePair == edge.attr.some => NumPairs(edge.attr.v) < MaxPairs

HeadNode(id, port) ==
    /\ edge' = head_node(id, port)
    /\ op' = [name |-> "Edge::head_node", id |-> id, port |-> port]
    /\ out' = None
    /\ UNCHANGED <<attrs, stmts, builder, graph, idres, ident, pt, sg, panicked, render>>

HeadSubgraph(sub) ==
    /\ edge' = head_subgraph(sub)
    /\ op' = [name |-> "Edge::head_subgraph", sub |-> sub]
    /\ out' = None
    /\ UNCHANGED <<attrs, stmts, builder, graph, idres, ident, pt, sg, panicked, render>>

LineToNode(id, port) ==
    /\ Len(edge.body) < MaxBody
    /\ edge' = line_to_node(edge, id, port)
    /\ op' = [name |-> "Edge::line_to_node", id |-> id, port |-> port]
    /\ out' = None
    /\ UNCHANGED <<attrs, stmts, builder, graph, idres, ident, pt, sg, panicked, render>>

LineToSubgraph(sub) ==
    /\ Len(edge.body) < MaxBody
    /\ edge' = line_to_subgraph(edge, sub)
    /\ op' = [name |-> "Edge::line_to_subgraph", sub |-> sub]
    /\ out' = None
    /\ UNCHANGED <<attrs, stmts, builder, graph, idres, ident, pt, sg, panicked, render>>

ArrowToNode(id, port) ==
    /\ Len(edge.body) < MaxBody
    /\ edge' = arrow_to_node(edge, id, port)
    /\ op' = [name |-> "Edge::arrow_to_node", id |-> id, port |-> port]
    /\ out' = None
    /\ UNCHANGED <<attrs, stmts, builder, graph, idres, ident, pt, sg, panicked, render>>

ArrowToSubgraph(sub) ==
    /\ Len(edge.body) < MaxBody
    /\ edge' = arrow_to_subgraph(edge, sub)
    /\ op' = [name |-> "Edge::arrow_to_subgraph", sub |-> sub]
    /\ out' = None
    /\ UNCHANGED <<attrs, stmts, builder, graph, idres, ident, pt, sg, panicked, render>>

AddAttrlist(list) ==
    /\ FitsEdge(list)
    /\ edge' = add_attrlist(edge, list)
    /\ op' = [name |-> "Edge::add_attrlist", list |-> list]
    /\ out' = None
    /\ panicked' = (panicked \/ add_attrlist_panics(edge))
    /\ UNCHANGED <<attrs, stmts, builder, graph, idres, ident, pt, sg, render>>

AddAttribute(key, value) ==
    /\ FitsEdgePair
    /\ edge' = add_attribute(edge, key, value)
    /\ op' = [name |-> "Edge::add_attribute", key |-> key, value |-> value]
    /\ out' = None
    /\ panicked' = (panicked \/ add_attribute_panics(edge))
    /\ UNCHANGED <<attrs, stmts, builder, graph, idres, ident, pt, sg, render>>

AddAttrpair(pair) ==
    /\ FitsEdgePair
    /\ edge' = add_attrpair(edge, pair)
    /\ op' = [name |-> "Edge::add_attrpair", pair |-> pair]
    /\ out' = None
    /\ panicked' = (panicked \/ add_attribute_panics(edge))
    /\ UNCHANGED <<attrs, stmts, builder, graph, idres, ident, pt, sg, render>>

\* edge.to_string()
FmtEdge ==
    /\ out' = Some(fmt_Edge(edge))
    /\ op' = [name |-> "Edge::fmt"]
    /\ UNCHANGED <<attrs, edge, stmts, builder, graph, idres, ident, pt, sg, panicked, render>>

\* the sessions that attach attributes to an edge: a head, at most MaxBody
\* arrows, and the three attribute calls
NextEdgeAttr ==
    \/ \E port \in {None, Some(PortXN)} : HeadNode(NodeA, port)
    \/ HeadSubgraph(EdgeSub)
    \/ ArrowToNode(NodeB, None)
    \/ \E list \in AttrLists : AddAttrlist(list)
    \/ \E pair \in AttrPairs : AddAttribute(pair[1], pair[2])
    \/ \E pair \in AttrPairs : AddAttrpair(pair)
    \/ FmtEdge

SpecEdgeAttr == Init /\ [][NextEdgeAttr]_vars

----------------------------------------------------------------------------
(* StmtList sessions. *)

StmtListNew ==
    /\ stmts' = StmtList_new
    /\ op' = [name |-> "StmtList::new"]
    /\ out' = None
    /\ UNCHANGED <<attrs, edge, builder, graph, idres, ident, pt, sg, panicked, render>>

StmtListAdd(stmt) ==
    /\ Len(stmts) < MaxStmts
    /\ stmts' = StmtList_add(stmts, stmt)
    /\ op' = [name |-> "StmtList::add", stmt |-> stmt]
    /\ out' = None
    /\ UNCHANGED <<attrs, edge, builder, graph, idres, ident, pt, sg, panicked, render>>

StmtListExtend(iter) ==
    /\ Len(stmts) + Len(iter) <= MaxStmts
    /\ stmts' = StmtList_extend(stmts, iter)
    /\ op' = [name |-> "StmtList::extend", iter |-> iter]
    /\ out' = None
    /\ UNCHANGED <<attrs, edge, builder, graph, idres, ident, pt, sg, panicked, render>>

AddNode(id, port, attr) ==
    /\ Len(stmts) < MaxStmts
    /\ stmts' = add_node(stmts, id, port, attr)
    /\ op' = [name |-> "StmtList::add_node", id |-> id, port |-> port, attr |-> attr]
    /\ out' = None
    /\ UNCHANGED <<attrs, edge, builder, graph, idres, ident, pt, sg, panicked, render>>

AddAttr(attr_type, attr_list) ==
    /\ Len(stmts) < MaxStmts
    /\ stmts' = add_attr(stmts, attr_type, attr_list)
    /\ op' = [name |-> "StmtList::add_attr", attr_type |-> attr_type, attr_list |-> attr_list]
    /\ out' = None
    /\ UNCHANGED <<attrs, edge, builder, graph, idres, ident, pt, sg, panicked, render>>

AddEdge(e) ==
    /\ Len(stmts) < MaxStmts
    /\ stmts' = add_edge(stmts, e)
    /\ op' = [name |-> "StmtList::add_edge", edge |-> e]
    /\ out' = None
    /\ UNCHANGED <<attrs, edge, builder, graph, idres, ident, pt, sg, panicked, render>>

AddSubgraph(sub) ==
    /\ Len(stmts) < MaxStmts
    /\ stmts' = add_subgraph(stmts, sub)
    /\ op' = [name |-> "StmtList::add_subgraph", sub |-> sub]
    /\ out' = None
    /\ UNCHANGED <<attrs, edge, builder, graph, idres, ident, pt, sg, panicked, render>>

AddEquation(a, b) ==
    /\ Len(stmts) < MaxStmts
    /\ stmts' = add_equation(stmts, a, b)
    /\ op' = [name |-> "StmtList::add_equation", a |-> a, b |-> b]
    /\ out' = None
    /\ UNCHANGED <<attrs, edge, builder, graph, idres, ident, pt, sg, panicked, render>>

\* stmts.to_string()
FmtStmtList ==
    /\ out' = Some(fmt_StmtList(stmts))
    /\ op' = [name |-> "StmtList::fmt"]
    /\ UNCHANGED <<attrs, edge, stmts, builder, graph, idres, ident, pt, sg, panicked, render>>

NextStmtList ==
    \/ StmtListNew
    \/ \E stmt \in Stmts : StmtListAdd(stmt)
    \/ \E iter \in StmtIters : StmtListExtend(iter)
    \/ \E n \in NodeArgs : AddNode(n[1], n[2], n[3])
    \/ \E ty \in {"Graph", "Node", "Edge"} : AddAttr(ty, << <<P1>> >>)
    \/ \E e \in Edges : AddEdge(e)
    \/ \E sub \in SubGraphs : AddSubgraph(sub)
    \/ \E eq \in EquationArgs : AddEquation(eq[1], eq[2])
    \/ FmtStmtList

SpecStmtList == Init /\ [][NextStmtList]_vars

----------------------------------------------------------------------------
(* Graph sessions: a GraphBuilder is filled and built, or a Graph is written *)
(* as a struct expression (inside the crate, where its fields are visible),  *)
(* and the Graph is displayed.  build() consumes the builder.                *)

GraphBuilderDefault ==
    /\ builder' = Some(GraphBuilder_default)
    /\ op' = [name |-> "GraphBuilder::default"]
    /\ UNCHANGED <<attrs, edge, stmts, graph, idres, out, ident, pt, sg, panicked, render>>

SetGraphType(value) ==
    /\ builder.some
    /\ builder' = Some(GraphBuilder_graph_type(builder.v, value))
    /\ op' = [name |-> "GraphBuilder::graph_type", value |-> value]
    /\ UNCHANGED <<attrs, edge, stmts, graph, idres, out, ident, pt, sg, panicked, render>>

SetStrict(value) ==
    /\ builder.some
    /\ builder' = Some(GraphBuilder_strict(builder.v, value))
    /\ op' = [name |-> "GraphBuilder::strict", value |-> value]
    /\ UNCHANGED <<attrs, edge, stmts, graph, idres, out, ident, pt, sg, panicked, render>>

SetId(value) ==
    /\ builder.some
    /\ builder' = Some(GraphBuilder_id(builder.v, value))
    /\ op' = [name |-> "GraphBuilder::id", value |-> value]
    /\ UNCHANGED <<attrs, edge, stmts, graph, idres, out, ident, pt, sg, panicked, render>>

SetStmts(value) ==
    /\ builder.some
    /\ builder' = Some(GraphBuilder_stmts(builder.v, value))
    /\ op' = [name |-> "GraphBuilder::stmts", value |-> value]
    /\ UNCHANGED <<attrs, edge, stmts, graph, idres, out, ident, pt, sg, panicked, render>>

Build ==
    /\ builder.some
    /\ graph' = Some(GraphBuilder_build(builder.v))
    /\ builder' = None
    /\ op' = [name |-> "GraphBuilder::build", self |-> builder.v]
    /\ out' = None
    /\ UNCHANGED <<attrs, edge, stmts, idres, ident, pt, sg, panicked, render>>

GraphStruct(graph_type, strict, id, list) ==
    /\ graph' = Some(Ok(Graph(graph_type, strict, id, list)))
    /\ op' = [name |-> "Graph"]
    /\ out' = None
    /\ UNCHANGED <<attrs, edge, stmts, builder, idres, ident, pt, sg, panicked, render>>

\* a variant of FmtGraph that takes the statements out of the graph it displays
FmtGraph_draining ==
    /\ graph.some
    /\ graph.v.ok
    /\ out' = Some(fmt_Graph(graph.v.v))
    /\ graph' = Some(Ok([graph.v.v EXCEPT !.stmts = StmtList_new]))
    /\ op' = [name |-> "Graph::fmt"]
    /\ UNCHANGED <<attrs, edge, stmts, builder, idres, ident, pt, sg, panicked, render>>

\* graph.to_string(), of a graph that was built
FmtGraph ==
    /\ graph.some
    /\ graph.v.ok
    /\ out' = Some(fmt_Graph(graph.v.v))
    /\ op' = [name |-> "Graph::fmt"]
    /\ UNCHANGED <<attrs, edge, stmts, builder, graph, idres, ident, pt, sg, panicked, render>>

Next ==
    \/ GraphBuilderDefault
    \/ \E value \in {"Graph", "DiGraph"} : SetGraphType(value)
    \/ \E value \in BOOLEAN : SetStrict(value)
    \/ \E value \in GraphIds : SetId(value)
    \/ \E value \in StmtLists : SetStmts(value)
    \/ Build
    \/ \E gt \in {"Graph", "DiGraph"}, st \in BOOLEAN, list \in StmtLists : GraphStruct(gt, st, None, list)
    \/ FmtGraph

Spec == Init /\ [][Next]_vars

----------------------------------------------------------------------------
(* Identity sessions. *)

\* ident.to_string()
FmtIdentity ==
    /\ ident.some
    /\ out' = Some(fmt_Identity(ident.v))
    /\ op' = [name |-> "Identity::fmt"]
    /\ UNCHANGED <<attrs, edge, stmts, builder, graph, idres, ident, pt, sg, panicked, render>>

\* a variant of IdentityId in which a failure makes the following calls fail
IdentityId_sticky(data) ==
    LET res == IF idres.some /\ ~idres.v.ok THEN idres.v ELSE Identity_id(data)
    IN  /\ idres' = Some(res)
        /\ ident' = IF res.ok THEN Some(res.v) ELSE None
        /\ out' = None
        /\ op' = [name |-> "Identity::id", data |-> data]
        /\ UNCHANGED <<attrs, edge, stmts, builder, graph, pt, sg, panicked, render>>

\* ident = Identity::id(data).ok(): the session holds the Identity of a call
\* that succeeded; a call that failed yields only its error
IdentityId(data) ==
    LET res == Identity_id(data)
    IN  /\ idres' = Some(res)
        /\ ident' = IF res.ok THEN Some(res.v) ELSE None
        /\ out' = None
        /\ op' = [name |-> "Identity::id", data |-> data]
        /\ UNCHANGED <<attrs, edge, stmts, builder, graph, pt, sg, panicked, render>>

NextIdentity ==
    \/ \E data \in IdStrings : IdentityId(data)
    \/ FmtIdentity

SpecIdentity == Init /\ [][NextIdentity]_vars

----------------------------------------------------------------------------
(* Properties of AttrList sessions. *)

RECURSIVE Flatten(_)
\* the concatenation of a sequence of texts
Flatten(ts) == IF Len(ts) = 0 THEN << >> ELSE Head(ts) \o Flatten(Tail(ts))

\* key, "=", value, ";"
PairText(p) == fmt_Identity(p[1]) \o Equals \o fmt_Identity(p[2]) \o Semi

\* "[", the pairs of the group in order, "]"
BlockText(g) == LBracket \o Flatten([i \in 1..Len(g) |-> PairText(g[i])]) \o RBracket

\* the blocks of the groups in order
BlocksText(list) == Flatten([i \in 1..Len(list) |-> BlockText(list[i])])

\* C4: AttrList::new() has zero groups; add(k,v) on a list with zero groups
\* creates exactly one group holding the pair; add(k,v) on a list with groups
\* appends the pair at the end of the last group and keeps the number of
\* groups and every earlier pair; new_bracket appends exactly one empty group.
\* Hence new().add(k,v) displays as [k=v;] and
\* new().add(k1,v1).new_bracket().add(k2,v2) displays as [k1=v1;][k2=v2;].
C4_LazyFirstGroupAndBrackets ==
    [][ /\ (op'.name = "AttrList::new" => Len(attrs') = 0)
        /\ (op'.name = "AttrList::add" /\ Len(attrs) = 0
               => attrs' = << << <<op'.key, op'.value>> >> >>)
        /\ (op'.name = "AttrList::add" /\ Len(attrs) > 0
               => /\ Len(attrs') = Len(attrs)
                  /\ \A i \in 1..(Len(attrs) - 1) : attrs'[i] = attrs[i]
                  /\ attrs'[Len(attrs)] = Append(attrs[Len(attrs)], <<op'.key, op'.value>>))
        /\ (op'.name = "AttrList::new_bracket"
               => /\ Len(attrs') = Len(attrs) + 1
                  /\ \A i \in 1..Len(attrs) : attrs'[i] = attrs[i]
                  /\ attrs'[Len(attrs')] = << >>)
        /\ (op'.name = "AttrList::fmt"
               => /\ \A p \in AttrPairs :
                        attrs = << <<p>> >>
                            => out'.v = LBracket \o fmt_Identity(p[1]) \o Equals
                                            \o fmt_Identity(p[2]) \o Utf(";]")
                  /\ (attrs = << <<P1>> >> => out'.v = Utf("[k1=v1;]"))
                  /\ (attrs = << <<P1>>, <<P2>> >> => out'.v = Utf("[k1=v1;][k2=v2;]")))
      ]_vars

\* new().add(k1,v1).new_bracket().add(k2,v2) has been built and displayed
C4_Witness ==
    /\ op.name = "AttrList::fmt"
    /\ attrs = << <<P1>>, <<P2>> >>
    /\ out = Some(Utf("[k1=v1;][k2=v2;]"))

\* C5 as stated: after AttrList::extend_list the list ends with a fresh empty
\* group placed after the merged content.
C5_ExtendListOpensTrailingGroup ==
    [][ op'.name = "AttrList::extend_list" => attrs' = Append(attrs \o op'.iter, << >>) ]_vars

\* C5 as amended: AttrList::extend_list leaves the existing groups followed by
\* the given groups and nothing else, no empty group is added; a following
\* add(k,v) puts the pair at the end of the last group of the result (the last
\* merged group when groups were given) and opens a bracket only when the
\* result has zero groups.
C5_ExtendListAppendsGroupsOnly ==
    [][ /\ (op'.name = "AttrList::extend_list" => attrs' = attrs \o op'.iter)
        /\ (op.name = "AttrList::extend_list" /\ op'.name = "AttrList::add" /\ Len(attrs) > 0
               => /\ Len(attrs') = Len(attrs)
                  /\ attrs'[Len(attrs)] = Append(attrs[Len(attrs)], <<op'.key, op'.value>>))
        /\ (op.name = "AttrList::extend_list" /\ op'.name = "AttrList::add" /\ Len(attrs) = 0
               => attrs' = << << <<op'.key, op'.value>> >> >>)
      ]_vars

\* a list with groups was merged into a list with groups, and the result ends
\* with the last merged group, which holds a pair
C5_Witness ==
    /\ op.name = "AttrList::extend_list"
    /\ Len(op.iter) > 0
    /\ Len(attrs) > Len(op.iter)
    /\ attrs[Len(attrs)] = op.iter[Len(op.iter)]
    /\ Len(attrs[Len(attrs)]) > 0

\* C10: an AttrList displays as one "[" ... "]" block per group, in group
\* order; inside a block every pair is key, "=", value, ";" in pair order, the
\* last pair included; a group with no pairs is exactly "[]"; the number of
\* "[" blocks equals the number of groups.
C10_AttrListDisplay ==
    (op.name = "AttrList::fmt" /\ out.some)
        => /\ out.v = BlocksText(attrs)
           /\ Occurrences(out.v, CodePoint("[")) = Len(attrs)
           /\ Occurrences(out.v, CodePoint("]")) = Len(attrs)
           /\ Occurrences(out.v, CodePoint(";")) = NumPairs(attrs)
           /\ (attrs = << << >> >> => out.v = Utf("[]"))

\* a list of three groups, the first with two pairs and the second empty, has
\* been displayed
C10_Witness ==
    /\ op.name = "AttrList::fmt"
    /\ out.some
    /\ Len(attrs) = 3
    /\ Len(attrs[1]) = 2
    /\ Len(attrs[2]) = 0
    /\ Len(attrs[3]) = 1

----------------------------------------------------------------------------
(* Properties of the attribute calls of Edge sessions. *)

\* the pair an Edge::add_attribute or Edge::add_attrpair call was given
PairOf(call) == IF call.name = "Edge::add_attrpair" THEN call.pair ELSE <<call.key, call.value>>

\* the edge a, without segments, holding attribute list `list`
EdgeAWith(list) == [node |-> EdgeNode_Node(NodeA, None), body |-> << >>, attr |-> Some(list)]

\* C2: for an edge that already has an attribute list, Edge::add_attrlist(L)
\* never replaces that list: every existing group stays unchanged and in
\* place, the groups of L follow in L's order, and exactly one empty group
\* is appended at the end.  An edge holding [k1=v1;] merged with the
\* one-group list [k2=v2;] displays [k1=v1;][k2=v2;][].
C2_AddAttrlistAppendsThenOpensGroup ==
    [][ /\ (op'.name = "Edge::add_attrlist" /\ edge.attr.some
               => /\ edge'.attr.some
                  /\ Len(edge'.attr.v) = Len(edge.attr.v) + Len(op'.list) + 1
                  /\ \A i \in 1..Len(edge.attr.v) : edge'.attr.v[i] = edge.attr.v[i]
                  /\ \A j \in 1..Len(op'.list) : edge'.attr.v[Len(edge.attr.v) + j] = op'.list[j]
                  /\ edge'.attr.v[Len(edge'.attr.v)] = << >>)
        /\ (op'.name = "Edge::add_attrlist" /\ edge.attr = Some(<< <<P1>> >>) /\ op'.list = << <<P2>> >>
               => edge'.attr = Some(<< <<P1>>, <<P2>>, << >> >>))
        /\ (op'.name = "Edge::fmt" /\ edge = EdgeAWith(<< <<P1>>, <<P2>>, << >> >>)
               => out'.v = Utf("a[k1=v1;][k2=v2;][]"))
      ]_vars

\* the edge holding [k1=v1;] was merged with [k2=v2;] and displayed
C2_Witness ==
    /\ op.name = "Edge::fmt"
    /\ edge = EdgeAWith(<< <<P1>>, <<P2>>, << >> >>)
    /\ out = Some(Utf("a[k1=v1;][k2=v2;][]"))

\* C3: Edge::add_attribute and Edge::add_attrpair never open a new group when
\* the edge's attribute list has at least one group: the pair goes to the end
\* of the last group and the number of groups is unchanged.  With no
\* attribute list, or a list of zero groups, exactly one group holding the
\* pair is created.  After add_attrlist merged a list into an existing one,
\* add_attribute(k3,v3) lands in the trailing empty group:
\* [k1=v1;][k2=v2;][k3=v3;].
C3_AddAttributeTargetsLastGroup ==
    [][ /\ (op'.name \in {"Edge::add_attribute", "Edge::add_attrpair"}
               => /\ edge'.attr.some
                  /\ edge'.node = edge.node
                  /\ edge'.body = edge.body
                  /\ IF edge.attr.some /\ Len(edge.attr.v) > 0
                     THEN /\ Len(edge'.attr.v) = Len(edge.attr.v)
                          /\ \A i \in 1..(Len(edge.attr.v) - 1) : edge'.attr.v[i] = edge.attr.v[i]
                          /\ edge'.attr.v[Len(edge.attr.v)]
                                 = Append(edge.attr.v[Len(edge.attr.v)], PairOf(op'))
                     ELSE edge'.attr.v = << <<PairOf(op')>> >>)
        /\ (op.name = "Edge::add_attrlist" /\ op'.name = "Edge::add_attribute"
              /\ edge.attr = Some(<< <<P1>>, <<P2>>, << >> >>) /\ PairOf(op') = P3
               => edge'.attr = Some(<< <<P1>>, <<P2>>, <<P3>> >>))
        /\ (op'.name = "Edge::fmt" /\ edge = EdgeAWith(<< <<P1>>, <<P2>>, <<P3>> >>)
               => out'.v = Utf("a[k1=v1;][k2=v2;][k3=v3;]"))
      ]_vars

\* add_attribute(k3,v3) has put its pair into the group that the merge of
\* [k2=v2;] into [k1=v1;] left open
C3_Witness ==
    /\ op.name = "Edge::add_attribute"
    /\ PairOf(op) = P3
    /\ edge.attr = Some(<< <<P1>>, <<P2>>, <<P3>> >>)

----------------------------------------------------------------------------
(* Properties of StmtList sessions. *)

RECURSIVE InnerSemis(_)
\* the ";" that the statements of a list write themselves
InnerSemis(list) ==
    IF Len(list) = 0 THEN 0
    ELSE Occurrences(fmt_Stmt(Head(list)), CodePoint(";")) + InnerSemis(Tail(list))

\* C9: a StmtList displays every statement in list order, each immediately
\* followed by exactly one ";", the last included; the list itself writes as
\* many ";" as it has statements; the empty list displays as the empty text;
\* [Equation(a,b), Equation(c,d)] displays a=b;c=d;.
C9_StmtListDisplay ==
    (op.name = "StmtList::fmt" /\ out.some)
        => /\ out.v = Flatten([i \in 1..Len(stmts) |-> fmt_Stmt(stmts[i]) \o Utf(";")])
           /\ Occurrences(out.v, CodePoint(";")) = Len(stmts) + InnerSemis(stmts)
           /\ (Len(stmts) = 0 => out.v = << >>)
           /\ (stmts = <<Stmt_Equation(String("a"), String("b")), Stmt_Equation(String("c"), String("d"))>>
                  => out.v = Utf("a=b;c=d;"))

\* [Equation(a,b), Equation(c,d)] has been displayed
C9_Witness ==
    /\ op.name = "StmtList::fmt"
    /\ stmts = <<Stmt_Equation(String("a"), String("b")), Stmt_Equation(String("c"), String("d"))>>
    /\ out = Some(Utf("a=b;c=d;"))

----------------------------------------------------------------------------
(* Properties of Graph sessions. *)

\* the graph of the end-to-end scenario
GraphStartEnd == Graph("DiGraph", TRUE, Some(String("G")), StmtsStartEnd)

\* the positions of the whitespace characters of a text
WhitespaceAt(text) == {i \in 1..Len(text) : text[i] \in {9, 10, 11, 12, 13, 32}}

\* C1: the Graph with graph_type DiGraph, strict true, id String("G") and the
\* statements add_node(start) then
\* add_edge(head_node(start).arrow_to_node(end).add_attribute(color, red))
\* displays exactly as  strict digraph G{start;start->end[color=red;];}  and
\* its only whitespace is the space after "strict" and the one after "digraph".
C1_EndToEnd ==
    (op.name = "Graph::fmt" /\ graph = Some(Ok(GraphStartEnd)))
        => /\ out = Some(Utf("strict digraph G{start;start->end[color=red;];}"))
           /\ WhitespaceAt(out.v) = {7, 15}

\* the scenario's graph has been built and displayed
C1_Witness ==
    /\ op.name = "Graph::fmt"
    /\ graph = Some(Ok(GraphStartEnd))
    /\ out.some

\* C7 as stated: a build with only the graph type and the statement list set
\* succeeds and yields strict = false and no id; a build fails only when the
\* graph type or the statement list is missing.
C7_BuildNeedsOnlyTypeAndStmts ==
    op.name = "GraphBuilder::build"
        => /\ (op.self.graph_type.some /\ op.self.stmts.some) => graph.v.ok
           /\ (graph.v.ok /\ ~op.self.strict.some) => graph.v.v.strict = FALSE
           /\ (graph.v.ok /\ ~op.self.id.some) => graph.v.v.id = None
           /\ ~graph.v.ok => (~op.self.graph_type.some \/ ~op.self.stmts.some)

\* C8: a Graph displays as the concatenation, in this order and with nothing
\* else, of "strict " when strict (nothing otherwise), "graph " or "digraph "
\* by graph type, the id when there is one, "{", the statement list, "}"; no
\* character separates the id from "{".
C8_GraphDisplay ==
    (op.name = "Graph::fmt" /\ out.some)
        => LET g == graph.v.v
               lead == (IF g.strict THEN Utf("strict ") ELSE << >>)
                           \o (IF g.graph_type = "Graph" THEN Utf("graph ") ELSE Utf("digraph "))
                           \o (IF g.id.some THEN fmt_Identity(g.id.v) ELSE << >>)
           IN  /\ g.graph_type \in {"Graph", "DiGraph"}
               /\ out.v = lead \o Utf("{") \o fmt_StmtList(g.stmts) \o Utf("}")
               /\ out.v[Len(lead) + 1] = CodePoint("{")

\* a non-strict undirected graph with an id and no statements has been displayed
C8_Witness ==
    /\ op.name = "Graph::fmt"
    /\ graph = Some(Ok(Graph("Graph", FALSE, Some(I32(12)), StmtList_new)))
    /\ out = Some(Utf("graph 12{}"))

----------------------------------------------------------------------------
(* Properties of Identity sessions. *)

\* [A-Za-z\x80-\xff_][A-Za-z\x80-\xff0-9_]*, the bare-identifier grammar
BareIdentifier(s) ==
    /\ Len(s) >= 1
    /\ s[1] \in (65..90) \cup (97..122) \cup {95} \cup (128..255)
    /\ \A i \in 2..Len(s) : s[i] \in (65..90) \cup (97..122) \cup {95} \cup (128..255) \cup (48..57)

\* C6 as stated: Identity::id(s) succeeds exactly when s is non-empty, starts
\* with an ASCII letter, "_" or a code point in U+0080..U+00FF, and continues
\* with ASCII letters, ASCII digits, "_" or code points in U+0080..U+00FF;
\* every other string is rejected, those with a character above U+00FF included.
C6_IdAcceptsExactlyBareIdentifiers ==
    op.name = "Identity::id" => (idres.v.ok <=> BareIdentifier(op.data))

----------------------------------------------------------------------------
(* SubGraph sessions: the two constructors and Display. *)

\* statements of the lists handed to the SubGraph constructors
SubStmts ==
    { Stmt_Equation(String("a"), String("b")),
      Stmt_Node(String("n"), None, None),
      Stmt_SubGraph(cluster(StmtList_new)),
      Stmt_SubGraph(subgraph(None, <<Stmt_Node(String("m"), None, None)>>)) }

\* statement lists, for SubGraph::cluster and SubGraph::subgraph
SubLists ==
    {StmtList_new} \cup {<<s>> : s \in SubStmts} \cup {<<s, u>> : s \in SubStmts, u \in SubStmts}

\* ids, for SubGraph::subgraph
SubIds == {None, Some(String("id")), Some(I32(12)), Some(Bool(TRUE))}

SubGraphCluster(list) ==
    /\ sg' = Some(cluster(list))
    /\ op' = [name |-> "SubGraph::cluster", list |-> list]
    /\ out' = None
    /\ UNCHANGED <<attrs, edge, stmts, builder, graph, idres, ident, pt, panicked, render>>

SubGraphSubgraph(id, list) ==
    /\ sg' = Some(subgraph(id, list))
    /\ op' = [name |-> "SubGraph::subgraph", id |-> id, list |-> list]
    /\ out' = None
    /\ UNCHANGED <<attrs, edge, stmts, builder, graph, idres, ident, pt, panicked, render>>

\* sg.to_string()
FmtSubGraph ==
    /\ sg.some
    /\ out' = Some(fmt_SubGraph(sg.v))
    /\ op' = [name |-> "SubGraph::fmt"]
    /\ UNCHANGED <<attrs, edge, stmts, builder, graph, idres, ident, pt, sg, panicked, render>>

NextSubGraph ==
    \/ \E list \in SubLists : SubGraphCluster(list)
    \/ \E id \in SubIds, list \in SubLists : SubGraphSubgraph(id, list)
    \/ FmtSubGraph

SpecSubGraph == Init /\ [][NextSubGraph]_vars

----------------------------------------------------------------------------
(* Properties of SubGraph sessions. *)

\* the position of the first "{" of a text
FirstBrace(text) == CHOOSE i \in 1..Len(text) : text[i] = CodePoint("{") /\ \A j \in 1..(i - 1) : text[j] # CodePoint("{")

\* C11 as stated: a cluster displays as "{" stmts "}" with no keyword, a
\* subgraph with an id as "subgraph " id " {" stmts "}", and a space stands
\* immediately before the opening brace only when an id is present: an
\* anonymous subgraph has no space between the keyword and "{".
C11_SpaceBeforeBraceOnlyWithId ==
    (op.name = "SubGraph::fmt" /\ out.some)
        => LET body == Utf("{") \o fmt_StmtList(sg.v.stmts) \o Utf("}")
           IN  /\ sg.v.tag = "Cluster" => out.v = body
               /\ (sg.v.tag = "SubGraph" /\ sg.v.id.some)
                      => out.v = Utf("subgraph ") \o fmt_Identity(sg.v.id.v) \o Utf(" ") \o body
               /\ (sg.v.tag = "SubGraph" /\ ~sg.v.id.some)
                      => out.v = Utf("subgraph") \o body
               /\ sg.v.tag = "SubGraph"
                      => (out.v[FirstBrace(out.v) - 1] = CodePoint(" ") <=> sg.v.id.some)

\* C11, amended: a cluster displays as "{" stmts "}" with no keyword, a
\* subgraph with an id as "subgraph " id " {" stmts "}", and an anonymous
\* subgraph as "subgraph {" stmts "}": the keyword always carries its
\* trailing space, so a space stands immediately before the opening brace
\* whether or not an id is present; a cluster has nothing before its brace.
C11_SubGraphDisplay ==
    (op.name = "SubGraph::fmt" /\ out.some)
        => LET body == Utf("{") \o fmt_StmtList(sg.v.stmts) \o Utf("}")
           IN  /\ sg.v.tag \in {"Cluster", "SubGraph"}
               /\ sg.v.tag = "Cluster" => (out.v = body /\ FirstBrace(out.v) = 1)
               /\ (sg.v.tag = "SubGraph" /\ sg.v.id.some)
                      => out.v = Utf("subgraph ") \o fmt_Identity(sg.v.id.v) \o Utf(" ") \o body
               /\ (sg.v.tag = "SubGraph" /\ ~sg.v.id.some)
                      => out.v = Utf("subgraph ") \o body
               /\ sg.v.tag = "SubGraph" => out.v[FirstBrace(out.v) - 1] = CodePoint(" ")

\* an anonymous subgraph holding one statement has been displayed
C11_Witness ==
    /\ op.name = "SubGraph::fmt"
    /\ sg = Some(subgraph(None, <<Stmt_Node(String("n"), None, None)>>))
    /\ out = Some(Utf("subgraph {n;}"))

----------------------------------------------------------------------------
(* Identity display sessions: an Identity is constructed and displayed. *)

\* the characters of the strings handed to Identity::quoted: NUL, TAB, LF, CR,
\* space, double quote, apostrophe, backslash, a, DEL, NO-BREAK SPACE, U+00E9,
\* U+0301
QuotedChars == {0, 9, 10, 13, 32, 34, 39, 92, 97, 127, 160, 233, 769}

\* the strings handed to Identity::quoted
QuotedStrings == UNION {[1..n -> QuotedChars] : n \in 0..MaxIdLen} \cup {Utf("foo bar")}

\* the values of the colour channels
Bytes == {0, 1, 16, 17, 255}

\* the bare strings written as Identity::String directly
BareStrings == {String("a"), String("12"), String("true"), String("-7"), String("foo_1")}

\* the i32 values converted with From<i32>
I32s == {0, 7, 12, 0 - 7, 2147483647, 0 - 2147483647}

\* the u8 values converted with From<u8>
U8s == {0, 12, 255}

IdentityQuoted(data) ==
    /\ ident' = Some(Identity_quoted(data))
    /\ op' = [name |-> "Identity::quoted", data |-> data]
    /\ out' = None
    /\ UNCHANGED <<attrs, edge, stmts, builder, graph, idres, pt, sg, panicked, render>>

\* an Identity written as an enum variant or converted with From
IdentityValue(id) ==
    /\ ident' = Some(id)
    /\ op' = [name |-> "Identity", id |-> id]
    /\ out' = None
    /\ UNCHANGED <<attrs, edge, stmts, builder, graph, idres, pt, sg, panicked, render>>

NextIdentityFmt ==
    \/ \E data \in QuotedStrings : IdentityQuoted(data)
    \/ \E id \in BareStrings : IdentityValue(id)
    \/ \E n \in I32s : IdentityValue(I32(n))
    \/ \E n \in U8s : IdentityValue(U8(n))
    \/ \E b \in BOOLEAN : IdentityValue(Bool(b))
    \/ \E r \in Bytes, g \in Bytes, b \in Bytes, a \in Bytes : IdentityValue(RGBA(r, g, b, a))
    \/ FmtIdentity

SpecIdentityFmt == Init /\ [][NextIdentityFmt]_vars

----------------------------------------------------------------------------
(* Properties of Identity display sessions. *)

\* the lower-case hexadecimal digits
HexDigits == (48..57) \cup (97..102)

\* the two lower-case hexadecimal digits of a byte
TwoHex(n) == <<HexDigit(n \div 16), HexDigit(n % 16)>>

\* the colours the sessions construct
Colours == {RGBA(r, g, b, a) : r \in Bytes, g \in Bytes, b \in Bytes, a \in Bytes}

\* C12 as stated: RGBA(r,g,b,a) displays as "#" followed by exactly eight
\* lower-case hexadecimal digits, two per channel in the order r, g, b, a (a
\* channel below 16 with a leading zero), so two different colours never
\* display as the same text.
C12_RgbaEightHexDigits ==
    (op.name = "Identity::fmt" /\ out.some /\ ident.v.tag = "RGBA")
        => /\ Len(out.v) = 9
           /\ out.v[1] = CodePoint("#")
           /\ \A i \in 2..Len(out.v) : out.v[i] \in HexDigits
           /\ out.v = <<35>> \o TwoHex(ident.v.rgba[1]) \o TwoHex(ident.v.rgba[2])
                              \o TwoHex(ident.v.rgba[3]) \o TwoHex(ident.v.rgba[4])
           /\ \A other \in Colours : fmt_Identity(other) = out.v => other = ident.v

----------------------------------------------------------------------------
(* Builder sessions: every builder operation of AttrList, Edge, StmtList and *)
(* SubGraph.  A session builds one value at a time: an operation consumes    *)
(* the value under construction and returns it, while the other values are   *)
(* as constructed.                                                           *)

\* the edge every session starts with
EdgeIdle == edge = head_node(NodeA, None)

\* the session is building its AttrList
OnAttrList == EdgeIdle /\ stmts = StmtList_new /\ sg = None

\* the session is building its Edge
OnEdge == attrs = AttrList_new /\ stmts = StmtList_new /\ sg = None

\* the session is building its StmtList
OnStmtList == attrs = AttrList_new /\ EdgeIdle /\ sg = None

\* the session is building its Edge and the chain has no segment yet: the first
\* segment is of any kind, later ones are arrows to nodes
OnEdgeHead == OnEdge /\ edge.body = << >>

\* the session is constructing its SubGraph
OnSubGraph == attrs = AttrList_new /\ EdgeIdle /\ stmts = StmtList_new

\* (id, port, attrs) triples for add_node in the mixed sessions: the bare
\* node and the node with a port and two groups
BuilderNodeArgs ==
    { <<String("start"), None, None>>,
      <<String("n"), Some(PortXN), Some(<< <<P1>>, <<P2>> >>)>> }

NextBuilders ==
    \/ OnAttrList /\ AttrListNew
    \/ OnAttrList /\ NewBracket
    \/ \E iter \in PairIters : OnAttrList /\ AttrListExtend(iter)
    \/ \E iter \in AttrLists : OnAttrList /\ ExtendList(iter)
    \/ \E pair \in AttrPairs : OnAttrList /\ AttrListAdd(pair[1], pair[2])
    \/ \E pair \in AttrPairs : OnAttrList /\ AddPair(pair)
    \/ OnEdge /\ HeadNode(NodeA, None)
    \/ OnEdge /\ HeadSubgraph(EdgeSub)
    \/ OnEdgeHead /\ LineToNode(NodeB, None)
    \/ OnEdgeHead /\ LineToSubgraph(EdgeSub)
    \/ OnEdge /\ ArrowToNode(NodeB, None)
    \/ OnEdgeHead /\ ArrowToSubgraph(EdgeSub)
    \/ \E list \in {<< >>, << <<P2>> >>} : OnEdge /\ AddAttrlist(list)
    \/ OnEdge /\ AddAttribute(P1[1], P1[2])
    \/ OnEdge /\ AddAttrpair(P3)
    \/ OnStmtList /\ StmtListNew
    \/ \E stmt \in Stmts : OnStmtList /\ StmtListAdd(stmt)
    \/ \E iter \in StmtIters : OnStmtList /\ StmtListExtend(iter)
    \/ \E n \in BuilderNodeArgs : OnStmtList /\ AddNode(n[1], n[2], n[3])
    \/ \E ty \in {"Graph", "Node", "Edge"} : OnStmtList /\ AddAttr(ty, << <<P1>> >>)
    \/ \E e \in Edges : OnStmtList /\ AddEdge(e)
    \/ \E s \in SubGraphs : OnStmtList /\ AddSubgraph(s)
    \/ \E eq \in EquationArgs : OnStmtList /\ AddEquation(eq[1], eq[2])
    \/ \E list \in SubLists : OnSubGraph /\ SubGraphCluster(list)
    \/ \E id \in SubIds, list \in SubLists : OnSubGraph /\ SubGraphSubgraph(id, list)

SpecBuilders == Init /\ [][NextBuilders]_vars

----------------------------------------------------------------------------
(* Properties of builder sessions. *)

\* the calls that reach Vec::last_mut().unwrap() or Option::as_mut().unwrap()
Unwrapping ==
    {"AttrList::extend", "AttrList::add", "AttrList::add_pair",
     "Edge::add_attrlist", "Edge::add_attribute", "Edge::add_attrpair"}

\* C13: no builder operation of AttrList, StmtList, Edge or SubGraph panics,
\* for any argument and after any sequence of earlier builder operations:
\* last_mut().unwrap() in AttrList::add and AttrList::extend is never reached
\* with zero groups, as_mut().unwrap() in Edge::add_attrlist and
\* Edge::add_attribute is never reached with an absent attribute list, and
\* every operation returns its value (when it adds a pair, an attribute list
\* with at least one group).
C13_BuildersNeverPanic ==
    /\ panicked = FALSE
    /\ op.name \in {"AttrList::extend", "AttrList::add", "AttrList::add_pair"} => Len(attrs) >= 1
    /\ op.name \in {"Edge::add_attribute", "Edge::add_attrpair"}
           => (edge.attr.some /\ Len(edge.attr.v) >= 1)
    /\ op.name = "Edge::add_attrlist" => edge.attr.some

\* Edge::add_attribute has been called on an edge whose attribute list had zero groups
C13_Witness ==
    /\ op.name = "Edge::add_attribute"
    /\ edge.attr = Some(<< <<P1>> >>)
    /\ Len(edge.body) = MaxBody
    /\ panicked = FALSE

----------------------------------------------------------------------------
(* Properties of Identity::id sessions. *)

\* the strings of the examples
TxtFoo1 == Utf("foo_1")

Txt1Foo == Utf("1foo")

\* the bare String identity foo_1
IdFoo1 == String("foo_1")

C15_IdThenDisplayIsIdentity ==
    [][ /\ (op'.name = "Identity::id" /\ idres'.v.ok)
               => /\ idres'.v.v = [tag |-> "String", s |-> op'.data]
                  /\ ident' = Some(idres'.v.v)
        /\ (op.name = "Identity::id" /\ idres.v.ok /\ op'.name = "Identity::fmt")
               => out' = Some(op.data)
      ]_vars

\* id("foo_1") has succeeded and its result has been displayed as foo_1
C15_Witness ==
    /\ op.name = "Identity::fmt"
    /\ idres = Some(Ok(String("foo_1")))
    /\ ident = Some(String("foo_1"))
    /\ out = Some(Utf("foo_1"))

----------------------------------------------------------------------------
(* Properties of quoted identities. *)

\* the text that stands for one char between the quotes: a backslash before
\* the double quote and the backslash, the backslash escapes of NUL, TAB, LF
\* and CR, \u{..} for the other chars that are not printable, the char itself
\* otherwise
QuotedImage(c) ==
    CASE c = 34 -> Utf("\\\"")
      [] c = 92 -> Utf("\\\\")
      [] c = 0 -> Utf("\\0")
      [] c = 9 -> Utf("\\t")
      [] c = 10 -> Utf("\\n")
      [] c = 13 -> Utf("\\r")
      [] c = 127 -> Utf("\\u{7f}")
      [] c = 160 -> Utf("\\u{a0}")
      [] c = 769 -> Utf("\\u{301}")
      [] OTHER -> <<c>>

\* the images of the chars the sessions use
QuotedImages == [c \in QuotedChars \cup {102, 111, 98, 114} |-> QuotedImage(c)]

\* whether the double quote at position i of a text is unescaped: an even
\* number of backslashes stands directly before it
Unescaped(text, i) ==
    LET run == CHOOSE n \in 0..(i - 1) :
                   /\ \A k \in 1..n : text[i - k] = 92
                   /\ (n = i - 1 \/ text[i - n - 1] # 92)
    IN  run % 2 = 0

\* what C16 and its amendment share: Identity::quoted(s) succeeds for every
\* s, and s displays as one double-quoted token in which every double quote
\* and every backslash of s is preceded by an escaping backslash
QuotedToken(s, text) ==
    /\ Len(text) >= 2
    /\ text[1] = 34
    /\ text[Len(text)] = 34
    /\ \A i \in 2..(Len(text) - 1) : text[i] = 34 => ~Unescaped(text, i)
    /\ Unescaped(text, Len(text))
    /\ Occurrences(text, 34) = 2 + Occurrences(s, 34)
    /\ Occurrences(text, 92) >= Occurrences(s, 34) + 2 * Occurrences(s, 92)

\* C16 as stated: Identity::quoted(s) succeeds for every s, those Identity::id
\* rejects included, and displays as one double-quoted token with every
\* double quote and backslash of s escaped by a backslash; an s without these
\* two characters appears unchanged between the quotes.
C16_QuotedUnchangedBetweenQuotes ==
    (op.name = "Identity::fmt" /\ out.some /\ ident.v.tag = "Quoted")
        => LET s == ident.v.s
           IN  /\ QuotedToken(s, out.v)
               /\ (Occurrences(s, 34) = 0 /\ Occurrences(s, 92) = 0)
                      => out.v = <<34>> \o s \o <<34>>

\* what the code does for a quoted identity: Identity::quoted(s) holds s as
\* given, and the display writes each char as Debug does: NUL, TAB, LF and
\* CR as \0, \t, \n and \r, every other char that is not printable (DEL,
\* NO-BREAK SPACE, a combining mark) as \u{hex}, and only an s of printable
\* chars other than the double quote and the backslash unchanged.
QuotedDisplayIsDebugEscaped ==
    /\ (op.name = "Identity::quoted" => ident = Some(Quoted(op.data)))
    /\ (op.name = "Identity::fmt" /\ out.some /\ ident.v.tag = "Quoted")
        => LET s == ident.v.s
           IN  /\ QuotedToken(s, out.v)
               /\ out.v = <<34>> \o Flatten([i \in 1..Len(s) |-> QuotedImages[s[i]]]) \o <<34>>
               /\ (\A i \in 1..Len(s) : s[i] \in {32, 39, 97, 233, 102, 111, 98, 114})
                      => out.v = <<34>> \o s \o <<34>>

\* foo bar, which Identity::id rejects, has been quoted and displayed
QuotedFooBarDisplayed ==
    /\ op.name = "Identity::fmt"
    /\ ident = Some(Quoted(Utf("foo bar")))
    /\ ~Identity_id(ident.v.s).ok
    /\ out = Some(Utf("\"foo bar\""))

----------------------------------------------------------------------------
(* Edge sessions that chain segments: a head of either kind, at most MaxBody *)
(* segments of either operator to either kind of endpoint, one attribute     *)
(* call, and the display of the edge.                                        *)

\* the ports the chained endpoints carry
ChainPorts == {None, Some(PortXN)}

NextEdgeChain ==
    \/ \E port \in ChainPorts : HeadNode(NodeA, port)
    \/ HeadSubgraph(EdgeSub)
    \/ \E port \in ChainPorts : LineToNode(NodeB, port)
    \/ LineToSubgraph(EdgeSub)
    \/ \E port \in ChainPorts : ArrowToNode(NodeB, port)
    \/ ArrowToSubgraph(EdgeSub)
    \/ AddAttrlist(<< <<P2>> >>)
    \/ FmtEdge

SpecEdgeChain == Init /\ [][NextEdgeChain]_vars

----------------------------------------------------------------------------
(* Properties of the display of an edge. *)

\* whether the text a begins the text b
IsPrefix(a, b) == Len(a) <= Len(b) /\ SubSeq(b, 1, Len(a)) = a

\* the text of each endpoint of the chained sessions
EndpointText(n) ==
    CASE n = EdgeNode_Node(NodeA, None) -> Utf("a")
      [] n = EdgeNode_Node(NodeA, Some(PortXN)) -> Utf("a:x:n")
      [] n = EdgeNode_Node(NodeB, None) -> Utf("b")
      [] n = EdgeNode_Node(NodeB, Some(PortXN)) -> Utf("b:x:n")
      [] n = EdgeNode_SubGraph(EdgeSub) -> Utf("subgraph s {}")

EndpointTexts ==
    [n \in {EdgeNode_Node(NodeA, None), EdgeNode_Node(NodeA, Some(PortXN)),
            EdgeNode_Node(NodeB, None), EdgeNode_Node(NodeB, Some(PortXN)),
            EdgeNode_SubGraph(EdgeSub)} |-> EndpointText(n)]

TxtArrow == Utf("->")

TxtLine == Utf("--")

\* the text of one segment: the operator directly followed by the endpoint
SegmentText(seg) == (IF seg.op = "Arrow" THEN TxtArrow ELSE TxtLine) \o EndpointTexts[seg.node]

\* the segment a chaining call hands over
SegmentOf(call) ==
    CASE call.name = "Edge::line_to_node" -> [op |-> "Line", node |-> EdgeNode_Node(call.id, call.port)]
      [] call.name = "Edge::line_to_subgraph" -> [op |-> "Line", node |-> EdgeNode_SubGraph(call.sub)]
      [] call.name = "Edge::arrow_to_node" -> [op |-> "Arrow", node |-> EdgeNode_Node(call.id, call.port)]
      [] call.name = "Edge::arrow_to_subgraph" -> [op |-> "Arrow", node |-> EdgeNode_SubGraph(call.sub)]

ChainCalls == {"Edge::line_to_node", "Edge::line_to_subgraph", "Edge::arrow_to_node", "Edge::arrow_to_subgraph"}

\* C17 (display): an edge displays as its head endpoint, then every body
\* segment in order as -> (Arrow) or -- (Line) directly followed by that
\* segment's endpoint, then its attribute list if it has one; a node endpoint
\* is its id followed by the port if any, a subgraph endpoint is the text of
\* the subgraph; with zero segments the text is the head and the attributes.
C17_EdgeText ==
    op.name = "Edge::fmt" =>
        /\ out = Some(EndpointTexts[edge.node]
                        \o Flatten([i \in 1..Len(edge.body) |-> SegmentText(edge.body[i])])
                        \o (IF edge.attr.some THEN fmt_AttrList(edge.attr.v) ELSE << >>))
        /\ Len(edge.body) = 0 =>
               out = Some(EndpointTexts[edge.node]
                            \o (IF edge.attr.some THEN fmt_AttrList(edge.attr.v) ELSE << >>))
        /\ edge.node.tag = "SubGraph" => IsPrefix(fmt_SubGraph(edge.node.sub), out.v)
        /\ edge.node.tag = "Node" =>
               IsPrefix(fmt_Identity(edge.node.id)
                          \o (IF edge.node.port.some THEN fmt_Port(edge.node.port.v) ELSE << >>), out.v)

\* C17 (order): the segments of the body are in insertion order, each chaining
\* call putting its segment after the ones the edge has.
C17_EdgeSegmentsInInsertionOrder ==
    [][ op'.name \in ChainCalls
            => /\ edge'.body = Append(edge.body, SegmentOf(op'))
               /\ edge'.node = edge.node
               /\ edge'.attr = edge.attr ]_vars

\* C17: an edge displays as its head endpoint, then every body segment in
\* insertion order as -> (Arrow) or -- (Line) directly followed by that
\* segment's endpoint, then its attribute list if it has one; a node endpoint
\* displays as its id followed by the port if any, a subgraph endpoint as
\* the subgraph; an edge with zero segments displays as the head and the
\* attributes alone.
C17_EdgeDisplay == []C17_EdgeText /\ C17_EdgeSegmentsInInsertionOrder

\* a:x:n, then a line to b, then an arrow to the subgraph s, with the
\* attribute list [k2=v2;], displayed
C17_Witness ==
    /\ op.name = "Edge::fmt"
    /\ edge.node = EdgeNode_Node(NodeA, Some(PortXN))
    /\ edge.body = << [op |-> "Line", node |-> EdgeNode_Node(NodeB, None)],
                      [op |-> "Arrow", node |-> EdgeNode_SubGraph(EdgeSub)] >>
    /\ edge.attr.some
    /\ out = Some(Utf("a:x:n--b->subgraph s {}[k2=v2;]"))

----------------------------------------------------------------------------
(* Port sessions: a port is made by one of the three constructors and        *)
(* displayed, or moved into the head node of an edge that gets an arrow to b *)
(* and is displayed.                                                         *)

\* enum Compass
CompassPoints ==
    {"North", "NorthEast", "Ease", "SouthEast", "South", "SouthWest", "West", "NorthWest", "Central"}

\* the fields the ports name
PortFields == {String("x"), String("f0"), I32(0 - 7)}

PortId(i) ==
    /\ pt' = Some(Port_id(i))
    /\ op' = [name |-> "Port::id", id |-> i]
    /\ out' = None
    /\ UNCHANGED <<attrs, edge, stmts, builder, graph, idres, ident, sg, panicked, render>>

PortIdCompass(i, c) ==
    /\ pt' = Some(Port_id_compass(i, c))
    /\ op' = [name |-> "Port::id_compass", id |-> i, compass |-> c]
    /\ out' = None
    /\ UNCHANGED <<attrs, edge, stmts, builder, graph, idres, ident, sg, panicked, render>>

PortCompass(c) ==
    /\ pt' = Some(Port_compass(c))
    /\ op' = [name |-> "Port::compass", compass |-> c]
    /\ out' = None
    /\ UNCHANGED <<attrs, edge, stmts, builder, graph, idres, ident, sg, panicked, render>>

\* pt.to_string()
FmtPort ==
    /\ pt.some
    /\ out' = Some(fmt_Port(pt.v))
    /\ op' = [name |-> "Port::fmt"]
    /\ UNCHANGED <<attrs, edge, stmts, builder, graph, idres, ident, pt, sg, panicked, render>>

\* Edge::head_node(a, Some(port)) with the session's port, which moves there
HeadNodeWithPort ==
    /\ pt.some
    /\ edge' = head_node(NodeA, pt)
    /\ pt' = None
    /\ op' = [name |-> "Edge::head_node", id |-> NodeA, port |-> pt]
    /\ out' = None
    /\ UNCHANGED <<attrs, stmts, builder, graph, idres, ident, sg, panicked, render>>

NextPort ==
    \/ \E i \in PortFields : PortId(i)
    \/ \E i \in PortFields, c \in CompassPoints : PortIdCompass(i, c)
    \/ \E c \in CompassPoints : PortCompass(c)
    \/ FmtPort
    \/ HeadNodeWithPort
    \/ ArrowToNode(NodeB, None)
    \/ FmtEdge

SpecPort == Init /\ [][NextPort]_vars

----------------------------------------------------------------------------
(* Properties of the display of a port. *)

\* the code of each compass point
CompassCode ==
    [c \in CompassPoints |->
        CASE c = "North" -> <<110>>
          [] c = "NorthEast" -> <<110, 101>>
          [] c = "Ease" -> <<101>>
          [] c = "SouthEast" -> <<115, 101>>
          [] c = "South" -> <<115>>
          [] c = "SouthWest" -> <<115, 119>>
          [] c = "West" -> <<119>>
          [] c = "NorthWest" -> <<110, 119>>
          [] c = "Central" -> <<99>>]

\* the text of each field
FieldText == [i \in PortFields |-> fmt_Identity(i)]

\* the text of each compass point as displayed
CompassText == [c \in CompassPoints |-> fmt_Compass(c)]

TxtAxnB == Utf("a:x:n->b")

\* C18: a port displays as : and the field for Port::ID(field, None), as
\* : field : code for Port::ID(field, Some(compass)) and as : code for
\* Port::Compass(compass), the nine compass points having the nine pairwise
\* distinct codes n, ne, e, se, s, sw, w, nw, c; in an edge the port follows
\* its node id directly: head node a with Port::ID(x, North) and an arrow to
\* b displays as a:x:n->b.
C18_PortDisplay ==
    /\ CompassText = CompassCode
    /\ \A c, d \in CompassPoints : c # d => CompassText[c] # CompassText[d]
    /\ op.name = "Port::id" => pt = Some([tag |-> "ID", id |-> op.id, compass |-> None])
    /\ op.name = "Port::id_compass" => pt = Some([tag |-> "ID", id |-> op.id, compass |-> Some(op.compass)])
    /\ op.name = "Port::compass" => pt = Some([tag |-> "Compass", compass |-> op.compass])
    /\ op.name = "Port::fmt" =>
           LET p == pt.v
           IN  /\ (p.tag = "ID" /\ ~p.compass.some) => out = Some(<<58>> \o FieldText[p.id])
               /\ (p.tag = "ID" /\ p.compass.some)
                      => out = Some(<<58>> \o FieldText[p.id] \o <<58>> \o CompassCode[p.compass.v])
               /\ p.tag = "Compass" => out = Some(<<58>> \o CompassCode[p.compass])
    /\ (op.name = "Edge::fmt" /\ edge.node.port.some) =>
           LET p == edge.node.port.v
               text == IF p.tag = "Compass" THEN <<58>> \o CompassCode[p.compass]
                       ELSE IF p.compass.some
                            THEN <<58>> \o FieldText[p.id] \o <<58>> \o CompassCode[p.compass.v]
                            ELSE <<58>> \o FieldText[p.id]
           IN  IsPrefix(<<97>> \o text, out.v)
    /\ (op.name = "Edge::fmt"
          /\ edge = arrow_to_node(head_node(NodeA, Some(Port_id_compass(String("x"), "North"))), NodeB, None))
           => out = Some(TxtAxnB)

\* head node a with Port::ID(x, North) and an arrow to b, displayed
C18_Witness ==
    /\ op.name = "Edge::fmt"
    /\ edge.node = EdgeNode_Node(NodeA, Some([tag |-> "ID", id |-> String("x"), compass |-> Some("North")]))
    /\ Len(edge.body) = 1
    /\ edge.body[1] = [op |-> "Arrow", node |-> EdgeNode_Node(NodeB, None)]
    /\ out = Some(TxtAxnB)

----------------------------------------------------------------------------
(* Injectivity of the display. *)

\* the identities the display sessions construct
Identities ==
    {Quoted(s) : s \in QuotedStrings} \cup BareStrings \cup {I32(n) : n \in I32s}
        \cup {U8(n) : n \in U8s} \cup {Bool(b) : b \in BOOLEAN} \cup Colours

\* C19 as stated: the display is injective: two structurally different trees
\* (differing in any identity variant or value, in the grouping of attribute
\* pairs, in the presence of an attribute list, or in statement structure)
\* never display as the same text.
C19_DisplayIsInjective ==
    (op.name = "Identity::fmt" /\ out.some) =>
        LET id == ident.v
            node == add_node(StmtList_new, id, None, None)
        IN  /\ \A other \in Identities : fmt_Identity(other) = out.v => other = id
            /\ fmt_AttrList(<< <<P1, P2>> >>) # fmt_AttrList(<< <<P1>>, <<P2>> >>)
            /\ fmt_StmtList(node) # fmt_StmtList(add_node(StmtList_new, id, None, Some(AttrList_new)))
            /\ fmt_StmtList(node) # fmt_StmtList(add_edge(StmtList_new, head_node(id, None)))

\* the parts of C19 taken one at a time, each as a state to look for: an
\* identity displayed like one of another variant, like one of its own
\* variant, a node statement displayed like the one with an empty attribute
\* list, and like the edge statement that has the node as its whole chain
SameTextOtherVariant ==
    /\ op.name = "Identity::fmt"
    /\ \E other \in Identities : other.tag # ident.v.tag /\ fmt_Identity(other) = out.v

SameTextSameVariant ==
    /\ op.name = "Identity::fmt"
    /\ \E other \in Identities : other.tag = ident.v.tag /\ other # ident.v /\ fmt_Identity(other) = out.v

SameTextWithEmptyAttrList ==
    /\ op.name = "Identity::fmt"
    /\ fmt_StmtList(add_node(StmtList_new, ident.v, None, None))
           = fmt_StmtList(add_node(StmtList_new, ident.v, None, Some(AttrList_new)))

SameTextNodeAndEdge ==
    /\ op.name = "Identity::fmt"
    /\ fmt_StmtList(add_node(StmtList_new, ident.v, None, None))
           = fmt_StmtList(add_edge(StmtList_new, head_node(ident.v, None)))

----------------------------------------------------------------------------
(* Purity of the display. *)

\* the calls on the builder, a value other than the graph
BuilderCalls ==
    {"GraphBuilder::default", "GraphBuilder::graph_type", "GraphBuilder::strict",
     "GraphBuilder::id", "GraphBuilder::stmts"}

----------------------------------------------------------------------------
(* Append-only building of a StmtList. *)

\* the calls that put statements into a StmtList
StmtCalls ==
    {"StmtList::add", "StmtList::extend", "StmtList::add_node", "StmtList::add_attr",
     "StmtList::add_edge", "StmtList::add_subgraph", "StmtList::add_equation"}

\* the statements a call hands over, in order: the variant matching the call
\* with the call's arguments
StatementsOf(call) ==
    CASE call.name = "StmtList::add" -> <<call.stmt>>
      [] call.name = "StmtList::extend" -> call.iter
      [] call.name = "StmtList::add_node"
            -> << [tag |-> "Node", id |-> call.id, port |-> call.port, attr |-> call.attr] >>
      [] call.name = "StmtList::add_attr"
            -> << [tag |-> "Attr", ty |-> call.attr_type, list |-> call.attr_list] >>
      [] call.name = "StmtList::add_edge" -> << [tag |-> "Edge", edge |-> call.edge] >>
      [] call.name = "StmtList::add_subgraph" -> << [tag |-> "SubGraph", sub |-> call.sub] >>
      [] call.name = "StmtList::add_equation"
            -> << [tag |-> "Equation", a |-> call.a, b |-> call.b] >>

\* C21: after any sequence of StmtList builder calls the list holds exactly
\* one statement per call (for extend: one per element, in the iterator's
\* order), each of the variant matching the call and carrying its arguments,
\* in call order; a call never changes, removes or reorders the statements
\* added earlier, so the displayed order is the call order.
C21_StmtListAppendOnly ==
    [][ op'.name \in StmtCalls
            => LET new == StatementsOf(op')
               IN  /\ Len(stmts') = Len(stmts) + Len(new)
                   /\ \A i \in 1..Len(stmts) : stmts'[i] = stmts[i]
                   /\ \A i \in 1..Len(new) : stmts'[Len(stmts) + i] = new[i]
                   /\ op'.name # "StmtList::extend" => Len(new) = 1
                   /\ fmt_StmtList(stmts')
                          = fmt_StmtList(stmts) \o Flatten([i \in 1..Len(new) |-> fmt_Stmt(new[i]) \o <<59>>]) ]_vars

\* extend has put a=b and c=d, in this order, after a node statement
C21_Witness ==
    /\ op.name = "StmtList::extend"
    /\ Len(op.iter) = 2
    /\ Len(stmts) = 3
    /\ stmts[1].tag = "Node"
    /\ stmts[2] = Stmt_Equation(String("a"), String("b"))
    /\ stmts[3] = Stmt_Equation(String("c"), String("d"))

----------------------------------------------------------------------------
(* Frame of the Edge constructors and chaining calls. *)

\* the operator each chaining call gives its segment
OperatorOf ==
    [c \in ChainCalls |->
        IF c \in {"Edge::line_to_node", "Edge::line_to_subgraph"} THEN "Line" ELSE "Arrow"]

\* the endpoint a head or chaining call is given
NodeOf(call) ==
    IF call.name \in {"Edge::head_node", "Edge::line_to_node", "Edge::arrow_to_node"}
    THEN [tag |-> "Node", id |-> call.id, port |-> call.port]
    ELSE [tag |-> "SubGraph", sub |-> call.sub]

\* C22: Edge::head_node and Edge::head_subgraph produce an edge with zero
\* body segments and no attribute list; each line_to_node/line_to_subgraph
\* call appends exactly one segment with operator Line and each
\* arrow_to_node/arrow_to_subgraph call exactly one with operator Arrow, at
\* the end of the chain, leaving the head, all earlier segments and the
\* attribute list unchanged.
C22_HeadsAndChainFrame ==
    [][ /\ op'.name \in {"Edge::head_node", "Edge::head_subgraph"}
            => /\ Len(edge'.body) = 0
               /\ edge'.attr = [some |-> FALSE]
               /\ edge'.node = NodeOf(op')
               /\ DOMAIN edge' = {"node", "body", "attr"}
        /\ op'.name \in ChainCalls
            => /\ Len(edge'.body) = Len(edge.body) + 1
               /\ edge'.body[Len(edge'.body)].op = OperatorOf[op'.name]
               /\ edge'.body[Len(edge'.body)].node = NodeOf(op')
               /\ \A i \in 1..Len(edge.body) : edge'.body[i] = edge.body[i]
               /\ edge'.node = edge.node
               /\ edge'.attr = edge.attr ]_vars

\* a line to the subgraph has been put after an arrow, on an edge that has
\* an attribute list
C22_Witness ==
    /\ op.name = "Edge::line_to_subgraph"
    /\ Len(edge.body) = 2
    /\ edge.body[1].op = "Arrow"
    /\ edge.body[2] = [node |-> EdgeNode_SubGraph(EdgeSub), op |-> "Line"]
    /\ edge.attr.some

----------------------------------------------------------------------------
(* Frame of AttrList::extend_list. *)

\* the sizes of the groups of an attribute list, in order
GroupSizes(list) == [i \in 1..Len(list) |-> Len(list[i])]

\* C23: AttrList::extend_list keeps every existing group and every given
\* group intact and in order: the existing groups come first, the given
\* groups follow in the iterator's order, no pair moves from one group to
\* another and no two groups are merged into one.
C23_ExtendListKeepsGroups ==
    [][ op'.name = "AttrList::extend_list"
            => LET given == op'.iter
               IN  /\ \A i \in 1..Len(attrs) : i <= Len(attrs') /\ attrs'[i] = attrs[i]
                   /\ \A j \in 1..Len(given) :
                          Len(attrs) + j <= Len(attrs') /\ attrs'[Len(attrs) + j] = given[j]
                   /\ GroupSizes(attrs') = GroupSizes(attrs) \o GroupSizes(given)
                   /\ fmt_AttrList(attrs') = fmt_AttrList(attrs) \o fmt_AttrList(given) ]_vars

\* the groups [k1=v1] and [k2=v2] were given to a list that held the group
\* [k3=v3]
C23_Witness ==
    /\ op.name = "AttrList::extend_list"
    /\ op.iter = << <<P1>>, <<P2>> >>
    /\ attrs = << <<P3>>, <<P1>>, <<P2>> >>

----------------------------------------------------------------------------
(* Display of the statements. *)

TxtGraphSp == Utf("graph ")

TxtNodeSp == Utf("node ")

TxtEdgeSp == Utf("edge ")

\* the text of a statement, by its variant
StatementText(s) ==
    CASE s.tag = "Node" ->
            fmt_Identity(s.id)
                \o (IF s.port.some THEN fmt_Port(s.port.v) ELSE << >>)
                \o (IF s.attr.some THEN fmt_AttrList(s.attr.v) ELSE << >>)
      [] s.tag = "Attr" ->
            (CASE s.ty = "Graph" -> TxtGraphSp
               [] s.ty = "Node" -> TxtNodeSp
               [] s.ty = "Edge" -> TxtEdgeSp) \o fmt_AttrList(s.list)
      [] s.tag = "Equation" -> fmt_Identity(s.a) \o <<61>> \o fmt_Identity(s.b)
      [] s.tag = "Edge" -> fmt_Edge(s.edge)
      [] s.tag = "SubGraph" -> fmt_SubGraph(s.sub)

\* the texts of some statements, written out
StatementLiterals ==
    { <<Stmt_Node(String("start"), None, None), Utf("start")>>,
      <<Stmt_Node(String("n"), Some(Port_compass("South")), None), Utf("n:s")>>,
      <<Stmt_Node(String("n"), None, Some(<< <<P3>> >>)), Utf("n[k3=v3;]")>>,
      <<Stmt_Node(String("n"), Some(PortXN), Some(<< <<P1>>, <<P2>> >>)), Utf("n:x:n[k1=v1;][k2=v2;]")>>,
      <<Stmt_Attr("Graph", << <<P1>> >>), Utf("graph [k1=v1;]")>>,
      <<Stmt_Attr("Node", << <<P1>> >>), Utf("node [k1=v1;]")>>,
      <<Stmt_Attr("Edge", << <<P1>> >>), Utf("edge [k1=v1;]")>>,
      <<Stmt_Equation(String("n"), I32(0 - 7)), Utf("n=-7")>>,
      <<Stmt_Edge(EdgeStartEnd), Utf("start->end[color=red;]")>>,
      <<Stmt_SubGraph(subgraph(Some(String("s")), << >>)), Utf("subgraph s {}")>> }

\* C24: a node statement displays as id, then the port if present, then the
\* attribute list if present; a default-attribute statement as the keyword
\* "graph ", "node " or "edge " (each with one trailing space) chosen by its
\* scope, followed by the attribute list; an equation as left identity, =,
\* right identity; edge and subgraph statements exactly as the edge or
\* subgraph they hold.  (A StmtList writes each statement followed by ";".)
C24_StmtDisplay ==
    (op.name = "StmtList::fmt" /\ out.some)
        => /\ out.v = Flatten([i \in 1..Len(stmts) |-> StatementText(stmts[i]) \o <<59>>])
           /\ \A lit \in StatementLiterals :
                  (Len(stmts) >= 1 /\ stmts[1] = lit[1]) => IsPrefix(lit[2] \o <<59>>, out.v)

\* a node with port and attributes, a default-attribute statement for edges
\* and an equation have been displayed
C24_Witness ==
    /\ op.name = "StmtList::fmt"
    /\ stmts = << Stmt_Node(String("n"), Some(PortXN), Some(<< <<P1>>, <<P2>> >>)),
                  Stmt_Attr("Edge", << <<P1>> >>),
                  Stmt_Equation(String("n"), I32(0 - 7)) >>
    /\ out = Some(Utf("n:x:n[k1=v1;][k2=v2;];edge [k1=v1;];n=-7;"))

----------------------------------------------------------------------------
(* The display of a StmtList, followed call by call.  x.to_string() runs     *)
(* Display::fmt on a Formatter that writes into a String.  render.stack      *)
(* holds what the call in progress has still to do, first thing first: a     *)
(* literal to write, or a value whose fmt is to be called; render.visits     *)
(* the position in the tree of every value whose fmt was called;             *)
(* render.text the String; render.res the Result folded so far.              *)

\* a literal piece of a format string
Lit(text) == [kind |-> "lit", text |-> text]

\* a "{}" argument of a format string: a value of the given type
Arg(kind, v) == [kind |-> kind, v |-> v, path |-> << >>]

\* Option<T> as an argument: nothing for None
OptArg(kind, o) == IF o.some THEN <<Arg(kind, o.v)>> ELSE << >>

\* fmt::Write for String: write_str appends and returns Ok(())
write_str(text, s) == [text |-> text \o s, res |-> Ok(<< >>)]

\* Result::and
Result_and(self, res) == IF self.ok THEN res ELSE self

\* Display for StmtList: write!(f, "{};", x) for each statement
StmtList_parts(self) ==
    Flatten([i \in 1..Len(self) |-> <<Arg("Stmt", self[i]), Lit(Semi)>>])

\* Display for Stmt
Stmt_parts(self) ==
    CASE self.tag = "Equation" -> <<Arg("Identity", self.a), Lit(Equals), Arg("Identity", self.b)>>
      [] self.tag = "Edge" -> <<Arg("Edge", self.edge)>>
      [] self.tag = "Node" ->
            <<Arg("Identity", self.id)>> \o OptArg("Port", self.port) \o OptArg("AttrList", self.attr)
      [] self.tag = "Attr" ->
            << Lit(CASE self.ty = "Node" -> KwNode
                     [] self.ty = "Graph" -> KwGraph
                     [] self.ty = "Edge" -> KwEdge),
               Arg("AttrList", self.list) >>
      [] self.tag = "SubGraph" -> <<Arg("SubGraph", self.sub)>>

\* a variant of SubGraph_parts that writes the statements of a cluster twice
SubGraph_parts_twice(self) ==
    IF self.tag = "SubGraph"
    THEN <<Lit(KwSubgraph)>>
             \o (IF self.id.some THEN <<Arg("Identity", self.id.v), Lit(Space)>> ELSE << >>)
             \o <<Lit(LBrace), Arg("StmtList", self.stmts), Lit(RBrace)>>
    ELSE <<Lit(LBrace), Arg("StmtList", self.stmts), Arg("StmtList", self.stmts), Lit(RBrace)>>

\* Display for SubGraph
SubGraph_parts(self) ==
    IF self.tag = "SubGraph"
    THEN <<Lit(KwSubgraph)>>
             \o (IF self.id.some THEN <<Arg("Identity", self.id.v), Lit(Space)>> ELSE << >>)
             \o <<Lit(LBrace), Arg("StmtList", self.stmts), Lit(RBrace)>>
    ELSE <<Lit(LBrace), Arg("StmtList", self.stmts), Lit(RBrace)>>

\* Display for EdgeNode
EdgeNode_parts(self) ==
    IF self.tag = "Node"
    THEN <<Arg("Identity", self.id)>> \o OptArg("Port", self.port)
    ELSE <<Arg("SubGraph", self.sub)>>

\* Display for EdgeBody
EdgeBody_parts(self) ==
    <<Lit(IF self.op = "Arrow" THEN OpArrow ELSE OpLine), Arg("EdgeNode", self.node)>>

\* Display for Edge
Edge_parts(self) ==
    <<Arg("EdgeNode", self.node)>>
        \o [i \in 1..Len(self.body) |-> Arg("EdgeBody", self.body[i])]
        \o OptArg("AttrList", self.attr)

\* Display for AttrList: "[", "{}={};" for each pair, "]" for each group
AttrList_parts(self) ==
    Flatten([g \in 1..Len(self) |->
        <<Lit(LBracket)>>
            \o Flatten([k \in 1..Len(self[g]) |->
                   <<Arg("Identity", self[g][k][1]), Lit(Equals),
                     Arg("Identity", self[g][k][2]), Lit(Semi)>>])
            \o <<Lit(RBracket)>>])

\* Display for Port
Port_parts(self) ==
    IF self.tag = "ID"
    THEN IF self.compass.some
         THEN <<Lit(Colon), Arg("Identity", self.id), Lit(Colon), Arg("Compass", self.compass.v)>>
         ELSE <<Lit(Colon), Arg("Identity", self.id)>>
    ELSE <<Lit(Colon), Arg("Compass", self.compass)>>

\* what the fmt of a value writes, in order; Identity and Compass write
\* their text and call no fmt of this crate
Parts(kind, v) ==
    CASE kind = "StmtList" -> StmtList_parts(v)
      [] kind = "Stmt" -> Stmt_parts(v)
      [] kind = "SubGraph" -> SubGraph_parts(v)
      [] kind = "EdgeNode" -> EdgeNode_parts(v)
      [] kind = "EdgeBody" -> EdgeBody_parts(v)
      [] kind = "Edge" -> Edge_parts(v)
      [] kind = "AttrList" -> AttrList_parts(v)
      [] kind = "Port" -> Port_parts(v)
      [] kind = "Identity" -> <<Lit(fmt_Identity(v))>>
      [] kind = "Compass" -> <<Lit(fmt_Compass(v))>>

\* the parts of the value at a position, each argument at its own position
PartsAt(kind, v, path) ==
    LET parts == Parts(kind, v)
    IN  [k \in 1..Len(parts) |->
            IF parts[k].kind = "lit" THEN parts[k] ELSE [parts[k] EXCEPT !.path = path \o <<k>>]]

RECURSIVE Nested(_)
\* a statement list with subgraphs nested d levels deep, in a statement and
\* in all three kinds of place an edge has for an endpoint
Nested(d) ==
    IF d = 0 THEN <<Stmt_Node(String("n"), None, None)>>
    ELSE << Stmt_SubGraph(subgraph(Some(String("s")), Nested(d - 1))),
            Stmt_Edge(arrow_to_subgraph(head_subgraph(cluster(Nested(d - 1))),
                                        subgraph(None, Nested(d - 1)))) >>

\* the statement lists that are displayed
RenderTrees ==
    {Nested(d) : d \in 0..MaxDepth}
        \cup { StmtList_new,
               StmtsStartEnd,
               add_attr(add_node(StmtList_new, String("n"), Some(PortXN), Some(<< <<P1>>, <<P2, P3>> >>)),
                        "Edge", << << >> >>),
               add_edge(add_equation(StmtList_new, String("a"), Bool(TRUE)),
                        line_to_node(head_node(NodeA, Some(Port_compass("West"))), NodeB, Some(Port_id(I32(12))))) }

\* whether no call of fmt is in progress
Idle == Len(render.stack) = 0

\* list.to_string() is called: the String is empty, fmt of the list is to run
FmtBegin(list) ==
    /\ Idle
    /\ stmts' = list
    /\ render' = [stack |-> <<[kind |-> "StmtList", v |-> list, path |-> << >>]>>,
                  visits |-> << >>, text |-> << >>, res |-> Ok(<< >>)]
    /\ out' = None
    /\ op' = [name |-> "to_string", list |-> list]
    /\ UNCHANGED <<attrs, edge, builder, graph, idres, ident, pt, sg, panicked>>

\* the text to_string returns when fmt has returned; it would panic on an Err
Returned(r) ==
    IF Len(r.stack) = 0 /\ r.res.ok THEN Some(r.text) ELSE None

\* a literal of a format string is written to the String
WriteLit ==
    /\ ~Idle
    /\ Head(render.stack).kind = "lit"
    /\ LET w == write_str(render.text, Head(render.stack).text)
           r == [render EXCEPT !.stack = Tail(@), !.text = w.text, !.res = Result_and(@, w.res)]
       IN  /\ render' = r
           /\ out' = Returned(r)
           /\ panicked' = (panicked \/ (Len(r.stack) = 0 /\ ~r.res.ok))
    /\ op' = [name |-> "write_str"]
    /\ UNCHANGED <<attrs, edge, stmts, builder, graph, idres, ident, pt, sg>>

\* fmt of the next value of the given type is called: it is visited, and what
\* it writes comes before everything that was pending
CallFmt(kind) ==
    /\ ~Idle
    /\ Head(render.stack).kind = kind
    /\ LET top == Head(render.stack)
           r == [render EXCEPT !.stack = PartsAt(kind, top.v, top.path) \o Tail(@),
                               !.visits = Append(@, top.path)]
       IN  /\ render' = r
           /\ out' = Returned(r)
    /\ op' = [name |-> "fmt", kind |-> kind]
    /\ UNCHANGED <<attrs, edge, stmts, builder, graph, idres, ident, pt, sg, panicked>>

\* a step of the call in progress
FmtStep ==
    \/ WriteLit
    \/ \E kind \in {"StmtList", "Stmt", "SubGraph", "EdgeNode", "EdgeBody", "Edge",
                    "AttrList", "Port", "Identity", "Compass"} : CallFmt(kind)

NextRender ==
    \/ \E list \in RenderTrees : FmtBegin(list)
    \/ WriteLit
    \/ CallFmt("StmtList")
    \/ CallFmt("Stmt")
    \/ CallFmt("SubGraph")
    \/ CallFmt("EdgeNode")
    \/ CallFmt("EdgeBody")
    \/ CallFmt("Edge")
    \/ CallFmt("AttrList")
    \/ CallFmt("Port")
    \/ CallFmt("Identity")
    \/ CallFmt("Compass")

\* a call that has begun keeps running
SpecRender == Init /\ [][NextRender]_vars /\ WF_vars(FmtStep)

----------------------------------------------------------------------------
(* Termination of the display. *)

RECURSIVE CountStmts(_)
RECURSIVE CountStmt(_)
RECURSIVE CountSubGraph(_)
RECURSIVE CountEdgeNode(_)
RECURSIVE CountBody(_)

\* the values a port is made of, itself included
CountPort(p) == IF p.tag = "ID" THEN (IF p.compass.some THEN 3 ELSE 2) ELSE 2

\* the values an attribute list is made of: itself and two identities a pair
CountAttrList(list) == 1 + 2 * NumPairs(list)

\* the values an edge is made of
CountEdge(e) ==
    1 + CountEdgeNode(e.node) + CountBody(e.body)
      + (IF e.attr.some THEN CountAttrList(e.attr.v) ELSE 0)

CountBody(body) ==
    IF Len(body) = 0 THEN 0 ELSE 1 + CountEdgeNode(Head(body).node) + CountBody(Tail(body))

CountEdgeNode(n) ==
    IF n.tag = "Node"
    THEN 2 + (IF n.port.some THEN CountPort(n.port.v) ELSE 0)
    ELSE 1 + CountSubGraph(n.sub)

CountSubGraph(s) ==
    IF s.tag = "SubGraph"
    THEN 1 + (IF s.id.some THEN 1 ELSE 0) + 1 + CountStmts(s.stmts)
    ELSE 1 + 1 + CountStmts(s.stmts)

CountStmt(s) ==
    CASE s.tag = "Equation" -> 3
      [] s.tag = "Edge" -> 1 + CountEdge(s.edge)
      [] s.tag = "Node" ->
            2 + (IF s.port.some THEN CountPort(s.port.v) ELSE 0)
              + (IF s.attr.some THEN CountAttrList(s.attr.v) ELSE 0)
      [] s.tag = "Attr" -> 1 + CountAttrList(s.list)
      [] s.tag = "SubGraph" -> 1 + CountSubGraph(s.sub)

\* the statements of a list and what they are made of, the list not counted
CountStmts(list) ==
    IF Len(list) = 0 THEN 0 ELSE CountStmt(Head(list)) + CountStmts(Tail(list))

\* the values a statement list is made of, itself included
CountStmtList(list) == 1 + CountStmts(list)

\* the sizes of the displayed trees
TreeSize == [list \in RenderTrees |-> CountStmtList(list)]

\* the texts of the displayed trees
TreeText == [list \in RenderTrees |-> fmt_StmtList(list)]

\* no value is visited twice; when the call has returned, every value of the
\* tree was visited, the result is Ok, and the String holds the text
C25_VisitsOnceAndReturnsOk ==
    /\ \A i, j \in 1..Len(render.visits) : render.visits[i] = render.visits[j] => i = j
    /\ Len(render.visits) <= TreeSize[stmts]
    /\ render.res.ok
    /\ ~panicked
    /\ (Idle /\ op.name \in {"fmt", "write_str"})
           => /\ Len(render.visits) = TreeSize[stmts]
              /\ out = Some(TreeText[stmts])
              /\ render.text = TreeText[stmts]

\* C25: displaying any finite tree, with subgraphs nested in statement lists
\* and in edge endpoints to any depth, terminates after visiting every node
\* of the tree exactly once, and never ends in an error.
C25_DisplayTerminates ==
    /\ []C25_VisitsOnceAndReturnsOk
    /\ (op.name = "to_string") ~> (Idle /\ out.some)

\* the display of the most deeply nested list has returned
C25_Witness ==
    /\ Idle
    /\ op.name = "write_str"
    /\ stmts = Nested(MaxDepth)
    /\ MaxDepth >= 2
    /\ Len(render.visits) = CountStmtList(stmts)
    /\ out = Some(fmt_StmtList(stmts))

----------------------------------------------------------------------------
(* The first attribute list of an edge. *)

\* C26: when an edge has no attribute list yet, Edge::add_attrlist(L) stores
\* L exactly as given, with no trailing empty group added; a following
\* add_attribute(k,v) then appends the pair to the last group of L (or
\* creates the first group when L has zero groups).
C26_FirstAttrlistStoredAsGiven ==
    [][ /\ (op'.name = "Edge::add_attrlist" /\ ~edge.attr.some)
            => /\ edge'.attr = [some |-> TRUE, v |-> op'.list]
               /\ edge'.node = edge.node
               /\ edge'.body = edge.body
        /\ (op.name = "Edge::add_attrlist" /\ edge.attr = [some |-> TRUE, v |-> op.list]
              /\ op'.name = "Edge::add_attribute")
            => LET L == op.list
                   n == Len(L)
                   pair == <<op'.key, op'.value>>
               IN  /\ edge'.attr.some
                   /\ n = 0 => edge'.attr.v = << <<pair>> >>
                   /\ n > 0 => /\ Len(edge'.attr.v) = n
                               /\ \A i \in 1..(n - 1) : edge'.attr.v[i] = L[i]
                               /\ edge'.attr.v[n] = Append(L[n], pair) ]_vars

\* an edge without attributes was given [k1=v1;][k2=v2;], and k3=v3 was
\* added to it
C26_Witness ==
    /\ op = [name |-> "Edge::add_attribute", key |-> P3[1], value |-> P3[2]]
    /\ edge.attr = Some(<< <<P1>>, <<P2, P3>> >>)

----------------------------------------------------------------------------
(* Edge sessions with every builder operation of Edge: the chaining calls in *)
(* any order with the three attribute calls.                                 *)

NextEdge ==
    \/ HeadNode(NodeA, None)
    \/ HeadSubgraph(EdgeSub)
    \/ LineToNode(NodeB, None)
    \/ LineToSubgraph(EdgeSub)
    \/ ArrowToNode(NodeB, Some(PortXN))
    \/ ArrowToSubgraph(EdgeSub)
    \/ \E list \in {<< >>, << <<P2>> >>} : AddAttrlist(list)
    \/ AddAttribute(P1[1], P1[2])
    \/ AddAttrpair(P3)

SpecEdge == Init /\ [][NextEdge]_vars

----------------------------------------------------------------------------
(* Append-only building of an Edge. *)

\* the builder operations of Edge that take an edge
EdgeCalls ==
    ChainCalls \cup {"Edge::add_attrlist", "Edge::add_attribute", "Edge::add_attrpair"}

\* C27: edge building is append-only: over any sequence of Edge builder
\* operations (line_to_*, arrow_to_*, add_attrlist, add_attribute,
\* add_attrpair) the head endpoint never changes, the number of body
\* segments and the number of attribute groups never decrease, every
\* existing segment and every existing attribute pair keeps its content, its
\* group and its position, and an attribute list once present is never
\* removed.
C27_EdgeAppendOnly ==
    [][ op'.name \in EdgeCalls
            => /\ edge'.node = edge.node
               /\ Len(edge'.body) >= Len(edge.body)
               /\ \A i \in 1..Len(edge.body) : edge'.body[i] = edge.body[i]
               /\ edge.attr.some
                    => /\ edge'.attr.some
                       /\ Len(edge'.attr.v) >= Len(edge.attr.v)
                       /\ \A g \in 1..Len(edge.attr.v) :
                              /\ Len(edge'.attr.v[g]) >= Len(edge.attr.v[g])
                              /\ \A k \in 1..Len(edge.attr.v[g]) :
                                     edge'.attr.v[g][k] = edge.attr.v[g][k] ]_vars

\* a segment was put on an edge that has two segments' worth of chain and
\* attribute groups holding pairs
C27_Witness ==
    /\ op.name = "Edge::arrow_to_node"
    /\ Len(edge.body) = 2
    /\ edge.body[1].op = "Line"
    /\ edge.attr.some
    /\ Len(edge.attr.v) >= 2
    /\ NumPairs(edge.attr.v) >= 2

----------------------------------------------------------------------------
(* Brackets of a displayed Graph. *)

RECURSIVE IdsOfStmts(_)
RECURSIVE IdsOfSubGraph(_)
RECURSIVE SubGraphsOfStmts(_)
RECURSIVE SubGraphsOfBody(_)

\* the identities of a port
IdsOfPort(p) == IF p.tag = "ID" THEN {p.id} ELSE {}

\* the identities of an attribute list
IdsOfAttrList(list) ==
    UNION {{list[g][k][1], list[g][k][2]} : <<g, k>> \in {x \in (1..Len(list)) \X (1..MaxPairs + 1) : x[2] <= Len(list[x[1]])}}

\* the identities of an edge endpoint
IdsOfEdgeNode(n) ==
    IF n.tag = "Node"
    THEN {n.id} \cup (IF n.port.some THEN IdsOfPort(n.port.v) ELSE {})
    ELSE IdsOfSubGraph(n.sub)

\* the identities of a statement
IdsOfStmt(s) ==
    CASE s.tag = "Equation" -> {s.a, s.b}
      [] s.tag = "Edge" ->
            IdsOfEdgeNode(s.edge.node)
                \cup UNION {IdsOfEdgeNode(s.edge.body[i].node) : i \in 1..Len(s.edge.body)}
                \cup (IF s.edge.attr.some THEN IdsOfAttrList(s.edge.attr.v) ELSE {})
      [] s.tag = "Node" ->
            {s.id} \cup (IF s.port.some THEN IdsOfPort(s.port.v) ELSE {})
                   \cup (IF s.attr.some THEN IdsOfAttrList(s.attr.v) ELSE {})
      [] s.tag = "Attr" -> IdsOfAttrList(s.list)
      [] s.tag = "SubGraph" -> IdsOfSubGraph(s.sub)

IdsOfSubGraph(s) ==
    (IF s.tag = "SubGraph" /\ s.id.some THEN {s.id.v} ELSE {}) \cup IdsOfStmts(s.stmts)

IdsOfStmts(list) == UNION {IdsOfStmt(list[i]) : i \in 1..Len(list)}

\* the identities of a graph
IdsOfGraph(g) == (IF g.id.some THEN {g.id.v} ELSE {}) \cup IdsOfStmts(g.stmts)

\* a bare identifier Identity::id accepts, an integer or a boolean
PlainIdentity(id) ==
    \/ id.tag = "String" /\ Identity_id(id.s) = Ok(id)
    \/ id.tag \in IntTags
    \/ id.tag = "Bool"

\* the subgraphs of an edge endpoint, nested ones included
SubGraphsOfEdgeNode(n) ==
    IF n.tag = "SubGraph" THEN 1 + SubGraphsOfStmts(n.sub.stmts) ELSE 0

SubGraphsOfBody(body) ==
    IF Len(body) = 0 THEN 0
    ELSE SubGraphsOfEdgeNode(Head(body).node) + SubGraphsOfBody(Tail(body))

\* the subgraphs of a statement list, nested ones included
SubGraphsOfStmts(list) ==
    IF Len(list) = 0 THEN 0
    ELSE LET s == Head(list)
         IN  (CASE s.tag = "SubGraph" -> 1 + SubGraphsOfStmts(s.sub.stmts)
                [] s.tag = "Edge" -> SubGraphsOfEdgeNode(s.edge.node) + SubGraphsOfBody(s.edge.body)
                [] OTHER -> 0)
             + SubGraphsOfStmts(Tail(list))

\* the number of "{" less the number of "}" among the first i chars of a text
BraceDepth(text, i) ==
    Cardinality({k \in 1..i : text[k] = 123}) - Cardinality({k \in 1..i : text[k] = 125})

TxtStrictSp == Utf("strict ")

TxtDigraphSp == Utf("digraph ")

\* C28: for every Graph whose identities are all bare identifiers accepted by
\* Identity::id, integers or booleans, the displayed text has balanced and
\* properly nested { } and [ ]: every [ is closed by a ] before any {, } or
\* further [ occurs, the number of { equals one plus the number of subgraphs
\* in the tree, and the text starts with "strict ", "graph " or "digraph "
\* and ends with }.
C28_BalancedBrackets ==
    (op.name = "Graph::fmt" /\ out.some /\ \A id \in IdsOfGraph(graph.v.v) : PlainIdentity(id))
        => LET text == out.v
               n == Len(text)
           IN  /\ \A i \in 1..n : BraceDepth(text, i) >= 0
               /\ BraceDepth(text, n) = 0
               /\ \A i \in 1..n : text[i] = 91 =>
                      \E j \in (i + 1)..n :
                          /\ text[j] = 93
                          /\ \A k \in (i + 1)..(j - 1) : text[k] \notin {91, 93, 123, 125}
               /\ \A j \in 1..n : text[j] = 93 =>
                      \E i \in 1..(j - 1) :
                          /\ text[i] = 91
                          /\ \A k \in (i + 1)..(j - 1) : text[k] \notin {91, 93, 123, 125}
               /\ Occurrences(text, 123) = 1 + SubGraphsOfStmts(graph.v.v.stmts)
               /\ IsPrefix(TxtStrictSp, text) \/ IsPrefix(TxtGraphSp, text) \/ IsPrefix(TxtDigraphSp, text)
               /\ text[n] = 125

\* a graph with three subgraphs, one of them nested, and attribute lists of
\* several groups has been displayed
C28_Witness ==
    /\ op.name = "Graph::fmt"
    /\ out.some
    /\ SubGraphsOfStmts(graph.v.v.stmts) = 3
    /\ Occurrences(out.v, 91) >= 4
    /\ \A id \in IdsOfGraph(graph.v.v) : PlainIdentity(id)

----------------------------------------------------------------------------
(* AttrList::extend. *)

TxtEmptyGroup == Utf("[]")

\* C29: AttrList::extend appends all given pairs, in the iterator's order, at
\* the end of the last group and never creates more than one group: on a
\* list with zero groups it first opens one group, even when the iterator
\* yields no pairs (the list then displays as [] instead of the empty text),
\* and on a list that has groups an empty iterator changes nothing.
C29_ExtendFillsLastGroup ==
    [][ op'.name = "AttrList::extend"
            => LET given == op'.iter
                   n == Len(attrs)
               IN  /\ Len(attrs') <= n + 1
                   /\ n = 0 => /\ Len(attrs') = 1
                               /\ attrs'[1] = given
                               /\ fmt_AttrList(attrs) = << >>
                               /\ Len(given) = 0 => fmt_AttrList(attrs') = TxtEmptyGroup
                   /\ n > 0 => /\ Len(attrs') = n
                               /\ \A g \in 1..(n - 1) : attrs'[g] = attrs[g]
                               /\ Len(attrs'[n]) = Len(attrs[n]) + Len(given)
                               /\ \A k \in 1..Len(attrs[n]) : attrs'[n][k] = attrs[n][k]
                               /\ \A k \in 1..Len(given) : attrs'[n][Len(attrs[n]) + k] = given[k]
                               /\ Len(given) = 0 => attrs' = attrs ]_vars

\* k2=v2 and k3=v3 were put, in this order, after k1=v1 in the last of two
\* groups
C29_Witness ==
    /\ op.name = "AttrList::extend"
    /\ op.iter = <<P2, P3>>
    /\ attrs = << << >>, <<P1, P2, P3>> >>

----------------------------------------------------------------------------
(* Sessions of the single-pair operations: an AttrList or an Edge is built,  *)
(* one at a time, with the calls that add one pair and the calls that make   *)
(* the lists they meet.                                                      *)

NextPairs ==
    \/ OnAttrList /\ AttrListNew
    \/ OnAttrList /\ NewBracket
    \/ \E iter \in AttrLists : OnAttrList /\ ExtendList(iter)
    \/ \E pair \in AttrPairs : OnAttrList /\ AttrListAdd(pair[1], pair[2])
    \/ \E pair \in AttrPairs : OnAttrList /\ AddPair(pair)
    \/ OnEdge /\ HeadNode(NodeA, None)
    \/ OnEdge /\ ArrowToNode(NodeB, None)
    \/ \E list \in {<< >>, << <<P2>> >>} : OnEdge /\ AddAttrlist(list)
    \/ \E pair \in AttrPairs : OnEdge /\ AddAttribute(pair[1], pair[2])
    \/ \E pair \in AttrPairs : OnEdge /\ AddAttrpair(pair)

SpecPairs == Init /\ [][NextPairs]_vars

----------------------------------------------------------------------------
(* Agreement of the single-pair operations. *)

\* C30: the single-pair operations agree with each other:
\* AttrList::add_pair((k,v)) gives the same list as add(k,v);
\* Edge::add_attrpair((k,v)) gives the same edge as add_attribute(k,v); and
\* Edge::add_attribute(k,v) leaves the edge's attribute list equal to
\* AttrList::add(k,v) applied to the edge's current list (or to
\* AttrList::new() when the edge has none), after any sequence of earlier
\* builder operations.
C30_SinglePairOperationsAgree ==
    [][ /\ op'.name = "AttrList::add_pair"
            => attrs' = AttrList_add(attrs, op'.pair[1], op'.pair[2])
        /\ op'.name = "AttrList::add"
            => attrs' = add_pair(attrs, <<op'.key, op'.value>>)
        /\ op'.name = "Edge::add_attrpair"
            => edge' = add_attribute(edge, op'.pair[1], op'.pair[2])
        /\ op'.name = "Edge::add_attribute"
            => edge' = add_attrpair(edge, <<op'.key, op'.value>>)
        /\ op'.name \in {"Edge::add_attribute", "Edge::add_attrpair"}
            => LET held == IF edge.attr.some THEN edge.attr.v ELSE AttrList_new
                   pair == PairOf(op')
               IN  /\ edge'.attr = Some(AttrList_add(held, pair[1], pair[2]))
                   /\ edge'.node = edge.node
                   /\ edge'.body = edge.body ]_vars

\* k3=v3 was added as a pair to an edge whose list ended with an empty group
C30_Witness ==
    /\ op = [name |-> "Edge::add_attrpair", pair |-> P3]
    /\ edge.attr = Some(<< <<P2, P1>>, <<P3>> >>)
    /\ Len(edge.body) = 1

====
